---- MODULE Spec2Model ----
(***************************************************************************)
(* Model of alexify's matching decision engine and of the per-file          *)
(* pipelines around it (alexify/core.py, alexify/core_concurrent.py,        *)
(* alexify/search.py, alexify/search_async.py, alexify/matching.py).        *)
(*                                                                          *)
(* Python strings are sequences of one-character strings; a Python dict    *)
(* is a function whose DOMAIN is the set of keys present.  A score is the  *)
(* value compute_overall_score returns, in whole points.                   *)
(***************************************************************************)
EXTENDS Integers, Sequences, FiniteSets, TLC

VARIABLES
    pc,        \* position of the per-entry call: "ready" | "done"
    mode,      \* which engine handled the call: "none" | "seq" | "async"
    entry0,    \* the citation as handed to the engine
    user_interaction, \* the interactive flag of the call
    strict,    \* the strict flag of the call
    res,       \* what the call did (entry afterwards, return value, calls issued)
    run,       \* state of a whole-file run (handle_process / handle_process_concurrent)
    sys        \* state of a component exercised on its own (a cache, a lookup, the request pool)

vars == <<pc, mode, entry0, user_interaction, strict, res, run, sys>>

(***************************************************************************)
(* Python string primitives                                                *)
(***************************************************************************)
WS == {" ", "\n", "\t"}

UPPER == <<"A", "B", "J", "S", "T", "W", "Y", "N", "D">>

LOWER == <<"a", "b", "j", "s", "t", "w", "y", "n", "d">>

\* str.lower() on one character
lower_char(c) ==
    IF \E i \in 1..Len(UPPER) : UPPER[i] = c
    THEN LOWER[CHOOSE i \in 1..Len(UPPER) : UPPER[i] = c]
    ELSE c

\* str.lower()
str_lower(s) == [i \in 1..Len(s) |-> lower_char(s[i])]

RECURSIVE str_lstrip(_)
str_lstrip(s) ==
    IF s = <<>> THEN <<>>
    ELSE IF Head(s) \in WS THEN str_lstrip(Tail(s)) ELSE s

RECURSIVE str_rstrip(_)
str_rstrip(s) ==
    IF s = <<>> THEN <<>>
    ELSE IF s[Len(s)] \in WS THEN str_rstrip(SubSeq(s, 1, Len(s) - 1)) ELSE s

\* str.strip()
str_strip(s) == str_rstrip(str_lstrip(s))

\* str.replace(old, new) for a one-character old; new is a string
RECURSIVE str_replace(_, _, _)
str_replace(s, old, new) ==
    IF s = <<>> THEN <<>>
    ELSE (IF Head(s) = old THEN new ELSE <<Head(s)>>) \o str_replace(Tail(s), old, new)

\* re.sub(r"\s+", " ", s)
RECURSIVE collapse_ws(_)
collapse_ws(s) ==
    IF s = <<>> THEN <<>>
    ELSE IF Head(s) \in WS
         THEN <<" ">> \o collapse_ws(str_lstrip(s))
         ELSE <<Head(s)>> \o collapse_ws(Tail(s))

\* str.startswith(prefix)
str_startswith(s, prefix) ==
    /\ Len(s) >= Len(prefix)
    /\ SubSeq(s, 1, Len(prefix)) = prefix

\* s.rsplit(sep, 1)[-1] for a one-character sep
RECURSIVE rsplit_last(_, _)
rsplit_last(s, sep) ==
    IF s = <<>> THEN <<>>
    ELSE IF s[Len(s)] = sep THEN <<>>
    ELSE rsplit_last(SubSeq(s, 1, Len(s) - 1), sep) \o <<s[Len(s)]>>

\* str.split(): the whitespace-separated words of s
RECURSIVE str_split(_)
str_split(s) ==
    LET t == str_lstrip(s)
        n == IF \E i \in 1..Len(t) : t[i] \in WS
             THEN (CHOOSE i \in 1..Len(t) :
                      t[i] \in WS /\ \A j \in 1..(i - 1) : t[j] \notin WS) - 1
             ELSE Len(t)
    IN  IF t = <<>> THEN <<>>
        ELSE <<SubSeq(t, 1, n)>> \o str_split(SubSeq(t, n + 1, Len(t)))

\* " ".join(words)
RECURSIVE str_join(_)
str_join(words) ==
    IF words = <<>> THEN <<>>
    ELSE IF Len(words) = 1 THEN words[1]
    ELSE words[1] \o <<" ">> \o str_join(Tail(words))

\* dict.get(key, "")
dict_get(d, key) == IF key \in DOMAIN d THEN d[key] ELSE <<>>

\* d[key] = value
dict_set(d, key, value) ==
    [k \in (DOMAIN d) \cup {key} |-> IF k = key THEN value ELSE d[k]]

(***************************************************************************)
(* alexify/matching.py                                                     *)
(***************************************************************************)
\* ASCII punctuation (string.punctuation without "_"): not \w and not \s
PUNCT == {",", ".", "{", "}", "-", "/", ":", "'", "&"}

\* unicodedata.normalize("NFKD", c).encode("ASCII", "ignore"): an accented
\* letter keeps its base letter, any other non-ASCII character is dropped
nfkd_ascii(c) ==
    IF c = "e_acute" THEN <<"e">>
    ELSE IF c = "eszett" THEN <<>>
    ELSE <<c>>

RECURSIVE to_ascii(_)
to_ascii(s) ==
    IF s = <<>> THEN <<>> ELSE nfkd_ascii(Head(s)) \o to_ascii(Tail(s))

clean_bibtex_entry(entry) ==
    [f \in DOMAIN entry |-> IF f = "abstract"
                            THEN str_strip(str_replace(entry[f], "\n", <<>>))
                            ELSE str_strip(collapse_ws(str_replace(entry[f], "\n", <<" ">>)))]

normalize_name(name) ==
    IF name = <<>> THEN <<>>
    ELSE str_lower(str_strip(collapse_ws(
             SelectSeq(to_ascii(name), LAMBDA c : c \notin PUNCT))))

SUFFIXES == {<<"j", "r">>, <<"s", "r">>, <<"i", "i">>, <<"i", "i", "i">>, <<"i", "v">>}

\* "Merge suffix if present"
merge_suffix(parts) ==
    IF Len(parts) >= 2 /\ parts[Len(parts)] \in SUFFIXES
    THEN SubSeq(parts, 1, Len(parts) - 2)
           \o <<parts[Len(parts) - 1] \o <<" ">> \o parts[Len(parts)]>>
    ELSE parts

\* "now dispatch by length"
name_triple(parts) ==
    IF Len(parts) = 0 THEN <<<<>>, <<>>, <<>>>>
    ELSE IF Len(parts) = 1 THEN <<<<>>, <<>>, parts[1]>>
    ELSE IF Len(parts) = 2 THEN <<parts[1], <<>>, parts[2]>>
    ELSE <<parts[1], str_join(SubSeq(parts, 2, Len(parts) - 1)), parts[Len(parts)]>>

\* the name is split as it stands, without normalize_name
split_name_components_raw(name) ==
    IF name = <<>> \/ str_strip(name) = <<>> THEN <<<<>>, <<>>, <<>>>>
    ELSE name_triple(merge_suffix(str_split(str_lower(name))))

split_name_components(name) ==
    IF name = <<>> \/ str_strip(name) = <<>> THEN <<<<>>, <<>>, <<>>>>
    ELSE name_triple(merge_suffix(str_split(normalize_name(name))))

\* length of the match of r"\s+and\s+" (IGNORECASE) at the start of rest, 0 if none;
\* a is rest without its leading whitespace
and_match_at(rest, a) ==
    IF /\ Len(rest) - Len(a) >= 1
       /\ Len(a) >= 4
       /\ str_lower(SubSeq(a, 1, 3)) = <<"a", "n", "d">>
       /\ a[4] \in WS
    THEN Len(rest) - Len(str_lstrip(SubSeq(a, 4, Len(a))))
    ELSE 0

and_match_len(s, i) == and_match_at(SubSeq(s, i, Len(s)), str_lstrip(SubSeq(s, i, Len(s))))

\* re.split(r"\s+and\s+", s, flags=re.IGNORECASE), scanning from position i
\* with the current piece starting at position p
RECURSIVE re_split_and(_, _, _)
re_split_from(s, p, i, m) ==
    IF m > 0
    THEN <<SubSeq(s, p, i - 1)>> \o re_split_and(s, i + m, i + m)
    ELSE re_split_and(s, p, i + 1)

re_split_and(s, p, i) ==
    IF i > Len(s) THEN <<SubSeq(s, p, Len(s))>>
    ELSE re_split_from(s, p, i, and_match_len(s, i))

\* position of the first "," of auth, 0 if none
first_comma(auth) ==
    IF \E i \in 1..Len(auth) : auth[i] = ","
    THEN CHOOSE i \in 1..Len(auth) : auth[i] = "," /\ \A j \in 1..(i - 1) : auth[j] # ","
    ELSE 0

\* "Lastname, First M." => "First M Lastname" with the comma at position k
swap_at_comma(auth, k) ==
    IF k > 0
    THEN str_strip(str_strip(SubSeq(auth, k + 1, Len(auth)))
                     \o <<" ">> \o str_strip(SubSeq(auth, 1, k - 1)))
    ELSE auth

\* one piece of the author field
author_display_name(piece) == swap_at_comma(str_strip(piece), first_comma(str_strip(piece)))

display_names(pieces) == [i \in 1..Len(pieces) |-> author_display_name(pieces[i])]

parse_bibtex_authors(author_field) ==
    IF author_field = <<>> THEN <<>>
    ELSE display_names(re_split_and(author_field, 1, 1))

(***************************************************************************)
(* alexify/search.py                                                       *)
(*                                                                          *)
(* A work of the catalog is [kind, id, score]: kind "work" is a JSON       *)
(* object, kind "junk" a JSON value that is no object; id = <<>> stands    *)
(* for a missing or empty "id"; score is what compute_overall_score gives  *)
(* for this work against the citation being processed.                     *)
(* A server behaviour is [kind, body]: what one call of                    *)
(* _make_request_with_retry meets, retries included.                       *)
(***************************************************************************)
NoneData == [shape |-> "none", results |-> <<>>]

\* Python's None where a text is expected, and a value that is no text
None == <<"<None>">>

NonText == <<"<int>">>

\* Summary of _make_request_with_retry: the decoded body of a successful
\* response, None once the retries are used up or on a 400, and the decoding
\* error of resp.json() propagates
make_request_with_retry(server) ==
    IF server.kind = "ok" THEN [raised |-> FALSE, data |-> server.body]
    ELSE IF server.kind = "bad_json" THEN [raised |-> TRUE, data |-> NoneData]
    ELSE [raised |-> FALSE, data |-> NoneData]

\* `not data`: None or an empty JSON value
data_falsy(data) == data.shape \in {"none", "empty"}

validate_openalex_response(data) ==
    /\ ~data_falsy(data)
    /\ data.shape # "not_dict"
    /\ data.shape # "no_results"
    /\ data.shape # "results_not_list"

maxsize == 1000

\* OrderedDict as a sequence of [key, value], oldest first
cache_has(cache, key) == \E i \in 1..Len(cache) : cache[i].key = key

cache_value(cache, key) == cache[CHOOSE i \in 1..Len(cache) : cache[i].key = key].value

cache_without(cache, key) == SelectSeq(cache, LAMBDA kv : kv.key # key)

\* a get that reads the value and leaves the order alone
BoundedCache_get_peek(cache, key) == cache

\* BoundedCache.get: the cache afterwards (a hit moves the key to the end)
BoundedCache_get(cache, key) ==
    IF ~cache_has(cache, key) THEN cache
    ELSE Append(cache_without(cache, key), [key |-> key, value |-> cache_value(cache, key)])

\* BoundedCache.put of a cache built with maxsize = cap
BoundedCache_put_cap(cache, key, value, cap) ==
    IF cache_has(cache, key)
    THEN Append(cache_without(cache, key), [key |-> key, value |-> value])
    ELSE IF Len(cache) >= cap
         THEN Append(Tail(cache), [key |-> key, value |-> value])
         ELSE Append(cache, [key |-> key, value |-> value])

BoundedCache_put(cache, key, value) == BoundedCache_put_cap(cache, key, value, maxsize)

\* BoundedCache.clear
BoundedCache_clear(cache) == <<>>

\* a search that forgets its result
fetch_after_request_noput(query, cache, r, cap) ==
    IF ~r.raised /\ ~data_falsy(r.data) /\ validate_openalex_response(r.data)
    THEN [works |-> r.data.results, cache |-> cache, requested |-> TRUE,
          ops |-> <<"get", "put">>]
    ELSE [works |-> <<>>, cache |-> cache, requested |-> TRUE, ops |-> <<"get">>]

\* a search that stores the empty list when the request failed
fetch_after_request_store_failed(query, cache, r, cap) ==
    IF ~r.raised /\ ~data_falsy(r.data) /\ validate_openalex_response(r.data)
    THEN [works |-> r.data.results,
          cache |-> BoundedCache_put_cap(cache, query, r.data.results, cap),
          requested |-> TRUE, ops |-> <<"get", "put">>]
    ELSE [works |-> <<>>, cache |-> BoundedCache_put_cap(cache, query, <<>>, cap),
          requested |-> TRUE, ops |-> <<"get">>]

\* the part of fetch_openalex_works after the request: r is what
\* _make_request_with_retry gave; ops lists the cache operations of the call
fetch_after_request(query, cache, r, cap) ==
    IF ~r.raised /\ ~data_falsy(r.data) /\ validate_openalex_response(r.data)
    THEN [works |-> r.data.results,
          cache |-> BoundedCache_put_cap(cache, query, r.data.results, cap),
          requested |-> TRUE, ops |-> <<"get", "put">>]
    ELSE [works |-> <<>>, cache |-> cache, requested |-> TRUE, ops |-> <<"get">>]

\* a guard that only knows the empty text
no_query_empty_only(query) == query = <<>>

\* "if not query or not isinstance(query, str)"
no_query(query) == query = <<>> \/ query = None \/ query = NonText

\* fetch_openalex_works(query) over a _SEARCH_CACHE built with maxsize = cap:
\* [works, cache afterwards, requested remotely, cache operations]
fetch_openalex_works_cap(query, cache, server, cap) ==
    IF no_query(query)
    THEN [works |-> <<>>, cache |-> cache, requested |-> FALSE, ops |-> <<>>]
    ELSE IF cache_has(cache, query)
    THEN [works |-> cache_value(cache, query),
          cache |-> BoundedCache_get(cache, query), requested |-> FALSE, ops |-> <<"get">>]
    ELSE fetch_after_request(query, cache, make_request_with_retry(server), cap)

fetch_openalex_works(query, cache, server) ==
    fetch_openalex_works_cap(query, cache, server, maxsize)

\* AsyncBoundedCache.get and put, each under the asyncio lock
AsyncBoundedCache_get(cache, key) ==
    IF ~cache_has(cache, key) THEN cache
    ELSE Append(cache_without(cache, key), [key |-> key, value |-> cache_value(cache, key)])

AsyncBoundedCache_put(cache, key, value, cap) ==
    IF cache_has(cache, key)
    THEN Append(cache_without(cache, key), [key |-> key, value |-> value])
    ELSE IF Len(cache) >= cap
         THEN Append(Tail(cache), [key |-> key, value |-> value])
         ELSE Append(cache, [key |-> key, value |-> value])

fetch_after_request_async(query, cache, r, cap) ==
    IF ~r.raised /\ ~data_falsy(r.data) /\ validate_openalex_response(r.data)
    THEN [works |-> r.data.results,
          cache |-> AsyncBoundedCache_put(cache, query, r.data.results, cap),
          requested |-> TRUE, ops |-> <<"get", "put">>]
    ELSE [works |-> <<>>, cache |-> cache, requested |-> TRUE, ops |-> <<"get">>]

\* fetch_openalex_works_async(query) over an _ASYNC_SEARCH_CACHE of maxsize cap
fetch_openalex_works_async(query, cache, server, cap) ==
    IF no_query(query)
    THEN [works |-> <<>>, cache |-> cache, requested |-> FALSE, ops |-> <<>>]
    ELSE IF cache_has(cache, query)
    THEN [works |-> cache_value(cache, query),
          cache |-> AsyncBoundedCache_get(cache, query), requested |-> FALSE,
          ops |-> <<"get">>]
    ELSE fetch_after_request_async(query, cache, make_request_with_retry(server), cap)

\* "First priority: all components if available"
first_priority(title_cleaned, author_cleaned, year_cleaned) ==
    IF title_cleaned # <<>> /\ author_cleaned # <<>> /\ year_cleaned # <<>>
    THEN <<title_cleaned \o <<" ">> \o author_cleaned \o <<" ">> \o year_cleaned>>
    ELSE IF title_cleaned # <<>> /\ year_cleaned # <<>>
    THEN <<title_cleaned \o <<" ">> \o year_cleaned>>
    ELSE <<>>

\* "if query not in queries_to_try: queries_to_try.append(query)"
append_if_new(queries, query) ==
    IF \E i \in 1..Len(queries) : queries[i] = query THEN queries ELSE Append(queries, query)

\* "Second priority: title + author (no year)"
second_priority(queries, title_cleaned, author_cleaned) ==
    IF title_cleaned # <<>> /\ author_cleaned # <<>>
    THEN append_if_new(queries, title_cleaned \o <<" ">> \o author_cleaned)
    ELSE queries

\* "Third priority: title only"
third_priority(queries, title_cleaned) ==
    IF title_cleaned # <<>> THEN append_if_new(queries, title_cleaned) ELSE queries

\* queries_to_try of fetch_all_candidates_for_entry
queries_to_try(title_cleaned, author_cleaned, year_cleaned) ==
    third_priority(
        second_priority(first_priority(title_cleaned, author_cleaned, year_cleaned),
                        title_cleaned, author_cleaned),
        title_cleaned)

\* every work with a non-empty id is appended, seen or not
RECURSIVE add_unique_unseen(_, _, _)
add_unique_unseen(results, all_results, seen_ids) ==
    IF results = <<>>
    THEN [all_results |-> all_results, seen_ids |-> seen_ids, raised |-> FALSE]
    ELSE IF Head(results).kind = "junk"
    THEN [all_results |-> all_results, seen_ids |-> seen_ids, raised |-> TRUE]
    ELSE IF Head(results).id # <<>>
    THEN add_unique_unseen(Tail(results), Append(all_results, Head(results)), seen_ids)
    ELSE add_unique_unseen(Tail(results), all_results, seen_ids)

\* the loop "for result in results": result.get("id") raises on a value that
\* is no dict; a work with a new, non-empty id is appended
RECURSIVE add_unique(_, _, _)
add_unique(results, all_results, seen_ids) ==
    IF results = <<>>
    THEN [all_results |-> all_results, seen_ids |-> seen_ids, raised |-> FALSE]
    ELSE LET w == Head(results)
         IN  IF w.kind = "junk"
             THEN [all_results |-> all_results, seen_ids |-> seen_ids, raised |-> TRUE]
             ELSE IF w.id # <<>> /\ w.id \notin seen_ids
             THEN add_unique(Tail(results), Append(all_results, w), seen_ids \cup {w.id})
             ELSE add_unique(Tail(results), all_results, seen_ids)

\* a request sent to the catalog: the query and what the catalog answered
Request(query, reply) == [query |-> query, reply |-> reply]

\* one turn of the loop "for query in queries_to_try": f is what
\* fetch_openalex_works gave for query number i, u the lists after its results
RECURSIVE try_queries(_, _, _, _, _, _, _, _)
after_results(queries, i, title_cleaned, remote, f, u, requests) ==
    IF u.raised
    THEN [results |-> <<>>, cache |-> f.cache, requests |-> requests,
          calls |-> i, raised |-> TRUE]
    ELSE IF f.works # <<>> /\ Len(u.all_results) >= 10 /\ queries[i] = title_cleaned
    THEN [results |-> u.all_results, cache |-> f.cache, requests |-> requests,
          calls |-> i, raised |-> FALSE]
    ELSE try_queries(queries, i + 1, title_cleaned, remote, f.cache,
                     u.all_results, u.seen_ids, requests)

after_fetch(queries, i, title_cleaned, remote, f, all_results, seen_ids, requests) ==
    after_results(queries, i, title_cleaned, remote, f,
                  add_unique(f.works, all_results, seen_ids),
                  IF f.requested THEN Append(requests, Request(queries[i], remote[i]))
                  ELSE requests)

\* the loop "for query in queries_to_try" from query number i on
try_queries(queries, i, title_cleaned, remote, cache, all_results, seen_ids, requests) ==
    IF i > Len(queries)
    THEN [results |-> all_results, cache |-> cache, requests |-> requests,
          calls |-> Len(queries), raised |-> FALSE]
    ELSE after_fetch(queries, i, title_cleaned, remote,
                     fetch_openalex_works(queries[i], cache, remote[i]),
                     all_results, seen_ids, requests)

\* a cleaning that forgets the braces
strip_only(s) == str_strip(s)

\* s.replace("{", "").replace("}", "").strip()
strip_braces(s) == str_strip(str_replace(str_replace(s, "{", <<>>), "}", <<>>))

\* fetch_all_candidates_for_entry once title, author and year are cleaned
fetch_cleaned(title_cleaned, author_cleaned, year_cleaned, cache, remote) ==
    IF title_cleaned = <<>>
    THEN [results |-> <<>>, cache |-> cache, requests |-> <<>>,
          calls |-> 0, raised |-> FALSE]
    ELSE try_queries(queries_to_try(title_cleaned, author_cleaned, year_cleaned), 1,
                     title_cleaned, remote, cache, <<>>, {}, <<>>)

\* fetch_all_candidates_for_entry(title, authors_first_author_ln, year):
\* [results, cache, requests sent to the catalog, calls of fetch_openalex_works, raised]
fetch_all_candidates_for_entry(title, authors_first_author_ln, year, cache, remote) ==
    fetch_cleaned(strip_braces(title), strip_braces(authors_first_author_ln),
                  str_strip(year), cache, remote)

(***************************************************************************)
(* alexify/core.py: the sequential decision engine                         *)
(***************************************************************************)
\* "https://openalex.org/"
OPENALEX_PREFIX ==
    <<"h", "t", "t", "p", "s", ":", "/", "/",
      "o", "p", "e", "n", "a", "l", "e", "x", ".", "o", "r", "g", "/">>

\* a shortening that ignores the prefix
_extract_short_id_always(wid) == rsplit_last(wid, "/")

_extract_short_id_if_needed(wid) ==
    IF str_startswith(wid, OPENALEX_PREFIX) THEN rsplit_last(wid, "/") ELSE wid

\* the oracle for the fuzzy library: the score of work w against the citation
compute_overall_score(entry, w) == w.score

\* position of scored[0] after scored.sort(key=score, reverse=True): the sort
\* is stable, so the first of the candidates with the greatest score
best_index(candidates) ==
    CHOOSE i \in 1..Len(candidates) :
        /\ \A j \in 1..Len(candidates) : candidates[j].score <= candidates[i].score
        /\ \A j \in 1..(i - 1) : candidates[j].score < candidates[i].score

\* a prompt that takes every answer but a "n..." for a yes
_user_prompt_unless_no(answer) ==
    ~str_startswith(str_strip(str_lower(answer.text)), <<"n">>)

\* _user_prompt_for_candidate: input(...).lower().strip().startswith("y")
_user_prompt_for_candidate(answer) ==
    str_startswith(str_strip(str_lower(answer.text)), <<"y">>)

high_thresh(strict_flag) == IF strict_flag THEN 90 ELSE 85

\* a maybe threshold that ignores strict mode
maybe_thresh_normal(strict_flag) == 60

maybe_thresh(strict_flag) == IF strict_flag THEN 70 ELSE 60

\* the record of one engine call; ret is <<changed, matched>>, or <<>> when the
\* call raised instead of returning; prompts lists what the user was asked to
\* type, one answer for each call of _user_prompt_for_candidate
Result(entry, ret, raised, outcome, fetch_calls, f, scored, prompts, best) ==
    [entry |-> entry, ret |-> ret, raised |-> raised, outcome |-> outcome,
     fetch_calls |-> fetch_calls, search_calls |-> f.calls, requests |-> f.requests,
     cache |-> f.cache, scored |-> scored, prompts |-> prompts, best |-> best]

NoFetch(cache) ==
    [results |-> <<>>, cache |-> cache, requests |-> <<>>, calls |-> 0, raised |-> FALSE]

NoBest == [kind |-> "none", id |-> <<>>, score |-> -1]

\* a maybe tier that prompts whether or not the run is interactive
maybe_range_prompting(cleaned, ui, f, best_work, answer) ==
    IF _user_prompt_for_candidate(answer)
    THEN Result(dict_set(cleaned, "openalex", _extract_short_id_if_needed(best_work.id)),
                <<TRUE, TRUE>>, FALSE, "UserAccepted", 1, f, Len(f.results), <<answer>>, best_work)
    ELSE Result(cleaned, <<FALSE, FALSE>>, FALSE, "UserRejected", 1, f,
                Len(f.results), <<answer>>, best_work)

\* "If best is in maybe range => interactive if requested, else accept"
maybe_range(cleaned, ui, f, best_work, answer) ==
    IF ui
    THEN IF answer.kind = "eof"
         THEN Result(cleaned, <<>>, TRUE, "Raised", 1, f, Len(f.results), <<answer>>, best_work)
         ELSE IF _user_prompt_for_candidate(answer)
         THEN Result(dict_set(cleaned, "openalex", _extract_short_id_if_needed(best_work.id)),
                     <<TRUE, TRUE>>, FALSE, "UserAccepted", 1, f, Len(f.results), <<answer>>, best_work)
         ELSE Result(cleaned, <<FALSE, FALSE>>, FALSE, "UserRejected", 1, f,
                     Len(f.results), <<answer>>, best_work)
    ELSE Result(dict_set(cleaned, "openalex", _extract_short_id_if_needed(best_work.id)),
                <<TRUE, TRUE>>, FALSE, "AutoAccepted", 1, f, Len(f.results), <<>>, best_work)

\* the thresholds applied to the best candidate
apply_thresholds(cleaned, ui, strict_flag, f, best_work, best_score, answer) ==
    IF best_score >= high_thresh(strict_flag)
    THEN Result(dict_set(cleaned, "openalex", _extract_short_id_if_needed(best_work.id)),
                <<TRUE, TRUE>>, FALSE, "AutoAccepted", 1, f, Len(f.results), <<>>, best_work)
    ELSE IF best_score >= maybe_thresh(strict_flag)
    THEN maybe_range(cleaned, ui, f, best_work, answer)
    ELSE Result(cleaned, <<FALSE, FALSE>>, FALSE, "NoMatch", 1, f, Len(f.results), <<>>, best_work)

\* scoring and ranking of the candidates f.results
score_and_decide(cleaned, ui, strict_flag, f, answer) ==
    IF f.raised
    THEN Result(cleaned, <<>>, TRUE, "Raised", 1, f, 0, <<>>, NoBest)
    ELSE IF f.results = <<>>
    THEN Result(cleaned, <<FALSE, FALSE>>, FALSE, "NoMatch", 1, f, 0, <<>>, NoBest)
    ELSE apply_thresholds(cleaned, ui, strict_flag, f, f.results[best_index(f.results)],
                          compute_overall_score(cleaned, f.results[best_index(f.results)]),
                          answer)

\* "Extract first author last name"
first_author_last_name(authors) ==
    IF authors # <<>> THEN split_name_components(authors[1])[3] ELSE <<>>

\* process_bib_entry_by_title after clean_bibtex_entry(entry)
process_cleaned(cleaned, ui, strict_flag, cache, remote, answer) ==
    IF dict_get(cleaned, "title") = <<>>
    THEN Result(cleaned, <<FALSE, FALSE>>, FALSE, "NoMatch", 0, NoFetch(cache), 0, <<>>, NoBest)
    ELSE score_and_decide(cleaned, ui, strict_flag,
             fetch_all_candidates_for_entry(
                 dict_get(cleaned, "title"),
                 first_author_last_name(parse_bibtex_authors(dict_get(cleaned, "author"))),
                 str_strip(dict_get(cleaned, "year")), cache, remote),
             answer)

\* an engine without the check for an identifier already there
process_bib_entry_by_title_noskip(entry, ui, strict_flag, cache, remote, answer) ==
    process_cleaned(clean_bibtex_entry(entry), ui, strict_flag, cache, remote, answer)

\* process_bib_entry_by_title(entry, user_interaction, strict) with the search
\* cache as it is, the catalog answering the i-th query as remote[i] and the
\* user typing answer if prompted
process_bib_entry_by_title(entry, ui, strict_flag, cache, remote, answer) ==
    IF "openalex" \in DOMAIN entry
    THEN Result(entry, <<FALSE, TRUE>>, FALSE, "SkipAlreadyMatched", 0, NoFetch(cache), 0, <<>>, NoBest)
    ELSE process_cleaned(clean_bibtex_entry(entry), ui, strict_flag, cache, remote, answer)

(***************************************************************************)
(* alexify/search_async.py and alexify/core_concurrent.py: the concurrent  *)
(* decision engine                                                         *)
(***************************************************************************)
\* the tasks of asyncio.gather: every query is sent, in the order of the list
RECURSIVE gather_queries(_, _, _, _, _, _)
gather_queries(queries, i, remote, cache, lists, requests) ==
    IF i > Len(queries)
    THEN [lists |-> lists, cache |-> cache, requests |-> requests]
    ELSE LET f == fetch_openalex_works(queries[i], cache, remote[i])
         IN  gather_queries(queries, i + 1, remote, f.cache, Append(lists, f.works),
                            IF f.requested THEN Append(requests, Request(queries[i], remote[i]))
                  ELSE requests)

\* the loop over zip(queries_to_try, results_lists)
RECURSIVE merge_lists(_, _, _, _, _, _)
merge_lists(queries, lists, i, title_cleaned, all_results, seen_ids) ==
    IF i > Len(queries)
    THEN [all_results |-> all_results, raised |-> FALSE]
    ELSE LET u == add_unique(lists[i], all_results, seen_ids)
         IN  IF u.raised THEN [all_results |-> <<>>, raised |-> TRUE]
             ELSE IF lists[i] # <<>> /\ Len(u.all_results) >= 10 /\ queries[i] = title_cleaned
             THEN [all_results |-> u.all_results, raised |-> FALSE]
             ELSE merge_lists(queries, lists, i + 1, title_cleaned, u.all_results, u.seen_ids)

\* the merge of the gathered result lists g.lists
merge_gathered(queries, title_cleaned, g, m) ==
    [results |-> m.all_results, cache |-> g.cache, requests |-> g.requests,
     calls |-> Len(queries), raised |-> m.raised]

gather_and_merge(queries, title_cleaned, g) ==
    merge_gathered(queries, title_cleaned, g,
                   merge_lists(queries, g.lists, 1, title_cleaned, <<>>, {}))

fetch_cleaned_async(title_cleaned, queries, cache, remote) ==
    IF title_cleaned = <<>>
    THEN [results |-> <<>>, cache |-> cache, requests |-> <<>>,
          calls |-> 0, raised |-> FALSE]
    ELSE gather_and_merge(queries, title_cleaned,
                          gather_queries(queries, 1, remote, cache, <<>>, <<>>))

fetch_all_candidates_for_entry_async(title, authors_first_author_ln, year, cache, remote) ==
    fetch_cleaned_async(strip_braces(title),
                        queries_to_try(strip_braces(title),
                                       strip_braces(authors_first_author_ln), str_strip(year)),
                        cache, remote)

\* sorted(scored, reverse=True) compares (score, work) tuples: two works with
\* equal scores are compared as dicts, which raises TypeError
score_candidates_raises(candidates) ==
    \E i, j \in 1..Len(candidates) :
        i # j /\ candidates[i].score = candidates[j].score /\ candidates[i] # candidates[j]

HIGH_CONFIDENCE == 80

MAYBE_THRESHOLD(strict_flag) == IF ~strict_flag THEN 60 ELSE 70

\* "Apply matching logic (same as original)"
apply_thresholds_async(entry_clean, ui, strict_flag, f, best_work, best_score) ==
    IF best_score >= HIGH_CONFIDENCE
    THEN Result(dict_set(entry_clean, "openalex", rsplit_last(best_work.id, "/")),
                <<TRUE, TRUE>>, FALSE, "AutoAccepted", 1, f, Len(f.results), <<>>, best_work)
    ELSE IF best_score >= MAYBE_THRESHOLD(strict_flag)
    THEN Result(entry_clean, <<FALSE, FALSE>>, FALSE, "Skipped", 1, f, Len(f.results), <<>>, best_work)
    ELSE Result(entry_clean, <<FALSE, FALSE>>, FALSE, "NoMatch", 1, f, Len(f.results), <<>>, best_work)

score_and_decide_async(entry_clean, ui, strict_flag, f) ==
    IF f.raised
    THEN Result(entry_clean, <<>>, TRUE, "Raised", 1, f, 0, <<>>, NoBest)
    ELSE IF f.results = <<>>
    THEN Result(entry_clean, <<FALSE, FALSE>>, FALSE, "NoMatch", 1, f, 0, <<>>, NoBest)
    ELSE IF score_candidates_raises(f.results)
    THEN Result(entry_clean, <<>>, TRUE, "Raised", 1, f, Len(f.results), <<>>, NoBest)
    ELSE apply_thresholds_async(entry_clean, ui, strict_flag, f,
                                f.results[best_index(f.results)],
                                compute_overall_score(entry_clean, f.results[best_index(f.results)]))

process_cleaned_async(entry_clean, ui, strict_flag, cache, remote) ==
    IF dict_get(entry_clean, "title") = <<>>
    THEN Result(entry_clean, <<FALSE, FALSE>>, FALSE, "NoMatch", 0, NoFetch(cache), 0, <<>>, NoBest)
    ELSE score_and_decide_async(entry_clean, ui, strict_flag,
             fetch_all_candidates_for_entry_async(
                 dict_get(entry_clean, "title"), dict_get(entry_clean, "author_lastname"),
                 dict_get(entry_clean, "year"), cache, remote))

process_bib_entry_by_title_async(entry, ui, strict_flag, cache, remote) ==
    IF "openalex" \in DOMAIN entry
    THEN Result(entry, <<FALSE, TRUE>>, FALSE, "SkipAlreadyMatched", 0, NoFetch(cache), 0, <<>>, NoBest)
    ELSE process_cleaned_async(clean_bibtex_entry(entry), ui, strict_flag, cache, remote)


(***************************************************************************)
(* DOI resolution: alexify/search.py, alexify/search_async.py              *)
(*                                                                          *)
(* A work of a DOI response is [kind, doi, id].  None is the one-element   *)
(* sequence <<"<None>">>, which no string equals.                          *)
(***************************************************************************)
\* "https://doi.org/"
DOI_PREFIX ==
    <<"h", "t", "t", "p", "s", ":", "/", "/", "d", "o", "i", ".", "o", "r", "g", "/">>

batch_size == 50

\* "Preprocess DOIs to the format expected by OpenAlex"
processed_doi(doi) ==
    IF doi = <<>> \/ doi = None THEN None
    ELSE IF str_startswith(doi, <<"h", "t", "t", "p">>) THEN doi
    ELSE DOI_PREFIX \o doi

\* result_map.get(key, None), result_map being filled from results in order
RECURSIVE result_map_get(_, _)
result_map_get(results, key) ==
    IF results = <<>> THEN None
    ELSE IF results[Len(results)].doi # <<>> /\ str_lower(results[Len(results)].doi) = key
    THEN rsplit_last(results[Len(results)].id, "/")
    ELSE result_map_get(SubSeq(results, 1, Len(results) - 1), key)

\* building result_map raises on a work that is no dict
results_raise(results) == \E i \in 1..Len(results) : results[i].kind = "junk"

\* a batch handler that drops the positions of a batch whose request failed
batch_results_dropped(batch, r) ==
    IF r.raised \/ data_falsy(r.data) \/ ~validate_openalex_response(r.data)
    THEN <<>>
    ELSE [i \in 1..Len(batch) |->
             IF batch[i] = None \/ results_raise(r.data.results) THEN None
             ELSE result_map_get(r.data.results, str_lower(batch[i]))]

\* local_results of one batch, data being what the request gave
batch_results(batch, r) ==
    IF r.raised \/ data_falsy(r.data) \/ ~validate_openalex_response(r.data)
       \/ results_raise(r.data.results)
    THEN [i \in 1..Len(batch) |-> None]
    ELSE [i \in 1..Len(batch) |->
             IF batch[i] = None THEN None
             ELSE result_map_get(r.data.results, str_lower(batch[i]))]

valid_dois(batch) == SelectSeq(batch, LAMBDA d : d # None)

\* processed_dois[i : i + batch_size] for the batch number b (from 1)
batch_at(processed_dois, b) ==
    SubSeq(processed_dois, (b - 1) * batch_size + 1,
           IF b * batch_size < Len(processed_dois) THEN b * batch_size ELSE Len(processed_dois))

\* one turn of the loop over the batches: no request for a batch without DOIs
one_batch(batch, server) ==
    IF valid_dois(batch) = <<>>
    THEN [ids |-> [i \in 1..Len(batch) |-> None], requests |-> <<>>, raised |-> FALSE]
    ELSE [ids |-> batch_results(batch, make_request_with_retry(server)),
          requests |-> <<valid_dois(batch)>>, raised |-> FALSE]

\* the loop over the batches from batch number b, acc being the lists so far
RECURSIVE doi_batches(_, _, _, _)
doi_batches_next(processed_dois, b, servers, acc, one) ==
    doi_batches(processed_dois, b + 1, servers,
                [ids |-> acc.ids \o one.ids, requests |-> acc.requests \o one.requests,
                 raised |-> acc.raised \/ one.raised])

doi_batches(processed_dois, b, servers, acc) ==
    IF (b - 1) * batch_size >= Len(processed_dois) THEN acc
    ELSE doi_batches_next(processed_dois, b, servers, acc,
                          one_batch(batch_at(processed_dois, b), servers[b]))

\* fetch_openalex_works_by_dois(dois): [ids, requests (the DOIs of each request), raised]
fetch_openalex_works_by_dois(dois, servers) ==
    IF dois = <<>> THEN [ids |-> <<>>, requests |-> <<>>, raised |-> FALSE]
    ELSE doi_batches([i \in 1..Len(dois) |-> processed_doi(dois[i])], 1, servers,
                     [ids |-> <<>>, requests |-> <<>>, raised |-> FALSE])

\* one batch of fetch_openalex_works_by_dois_async: a request that raised or
\* gave nothing valid leaves the batch at None; a work that is no dict raises
\* out of the loop that maps the results back
batch_results_async(batch, r) ==
    IF r.raised \/ data_falsy(r.data) \/ ~validate_openalex_response(r.data)
    THEN [ids |-> [i \in 1..Len(batch) |-> None], requests |-> <<valid_dois(batch)>>,
          raised |-> FALSE]
    ELSE [ids |-> [i \in 1..Len(batch) |->
                      IF batch[i] = None \/ results_raise(r.data.results) THEN None
                      ELSE result_map_get(r.data.results, str_lower(batch[i]))],
          requests |-> <<valid_dois(batch)>>,
          raised |-> results_raise(r.data.results)]

one_batch_async(batch, server) ==
    IF valid_dois(batch) = <<>>
    THEN [ids |-> [i \in 1..Len(batch) |-> None], requests |-> <<>>, raised |-> FALSE]
    ELSE batch_results_async(batch, make_request_with_retry(server))

RECURSIVE doi_batches_async(_, _, _, _)
doi_batches_async_next(processed_dois, b, servers, acc, one) ==
    doi_batches_async(processed_dois, b + 1, servers,
                      [ids |-> acc.ids \o one.ids, requests |-> acc.requests \o one.requests,
                       raised |-> acc.raised \/ one.raised])

doi_batches_async(processed_dois, b, servers, acc) ==
    IF (b - 1) * batch_size >= Len(processed_dois) THEN acc
    ELSE doi_batches_async_next(processed_dois, b, servers, acc,
                                one_batch_async(batch_at(processed_dois, b), servers[b]))

fetch_openalex_works_by_dois_async(dois, servers) ==
    IF dois = <<>> THEN [ids |-> <<>>, requests |-> <<>>, raised |-> FALSE]
    ELSE doi_batches_async([i \in 1..Len(dois) |-> processed_doi(dois[i])], 1, servers,
                           [ids |-> <<>>, requests |-> <<>>, raised |-> FALSE])

(***************************************************************************)
(* Inputs of the per-entry specification                                   *)
(***************************************************************************)
\* most works a catalog response lists
MaxCands == 2

NoField == <<>>

Titles == {<<>>, <<" ">>, <<"{", "}">>, <<"T">>, <<" ", "{", "T", "}", "\n">>}

Authors == {<<"S", ",", " ", "J">>, <<"J", " ", "B", " ", "j", "r">>}

Years == {<<"2", "1">>}

StoredIds == {<<"W", "9">>}

\* the dicts with at most the key k, its value drawn from vals
Optional(k, vals) == {NoField} \cup {k :> v : v \in vals}

Entries ==
    {t @@ a @@ y @@ o : t \in Optional("title", Titles), a \in Optional("author", Authors),
                        y \in Optional("year", Years), o \in Optional("openalex", StoredIds)}

ID1 == OPENALEX_PREFIX \o <<"W", "1">>

ID2 == OPENALEX_PREFIX \o <<"W", "2">>

\* "http://openalex.org/W3"
ID_HTTP ==
    <<"h", "t", "t", "p", ":", "/", "/",
      "o", "p", "e", "n", "a", "l", "e", "x", ".", "o", "r", "g", "/", "W", "3">>

\* "https://api.openalex.org/works/W4"
ID_API ==
    <<"h", "t", "t", "p", "s", ":", "/", "/", "a", "p", "i", ".",
      "o", "p", "e", "n", "a", "l", "e", "x", ".", "o", "r", "g", "/",
      "w", "o", "r", "k", "s", "/", "W", "4">>

ID_BARE == <<"W", "5">>

\* "https://openalex.org/works/W6"
ID_NESTED == OPENALEX_PREFIX \o <<"w", "o", "r", "k", "s", "/", "W", "6">>

Scores == {59, 60, 69, 70, 79, 80, 84, 85, 89, 90}

Work(id, score) == [kind |-> "work", id |-> id, score |-> score]

Junk == [kind |-> "junk", id |-> <<>>, score |-> 0]

SingleWorks ==
    {Work(ID1, sc) : sc \in Scores}
      \cup {Work(id, sc) : id \in {ID_HTTP, ID_API, ID_BARE, ID_NESTED}, sc \in {75, 95}}

ListWorks == {Work(ID1, 84), Work(ID2, 85), Work(ID2, 84), Work(<<>>, 95), Junk}

RECURSIVE SeqsUpTo(_, _)
SeqsUpTo(S, n) ==
    IF n = 0 THEN {<<>>}
    ELSE LET shorter == SeqsUpTo(S, n - 1)
         IN  shorter \cup {Append(q, x) : q \in {p \in shorter : Len(p) = n - 1}, x \in S}

Ok(results) == [kind |-> "ok", body |-> [shape |-> "results", results |-> results]]

Failures ==
    {[kind |-> k, body |-> NoneData] :
        k \in {"timeout", "transport", "status_retry", "status_400", "status_other", "bad_json"}}
      \cup {[kind |-> "ok", body |-> [shape |-> sh, results |-> <<>>]] :
              sh \in {"empty", "not_dict", "no_results", "results_not_list"}}

\* what the catalog may answer to the first query of a citation
Responses ==
    {Ok(<<w>>) : w \in SingleWorks} \cup {Ok(l) : l \in SeqsUpTo(ListWorks, MaxCands)}
      \cup Failures

\* what it may answer to the second and third query
FollowResponses ==
    {Ok(<<>>), Ok(<<Work(ID2, 95)>>), Ok(<<Work(ID1, 60)>>),
     [kind |-> "timeout", body |-> NoneData]}

Remotes(n) ==
    IF n = 0 THEN {<<>>}
    ELSE IF n = 1 THEN {<<a>> : a \in Responses}
    ELSE IF n = 2 THEN {<<a, b>> : a \in Responses, b \in FollowResponses}
    ELSE {<<a, b, c>> : a \in Responses, b \in FollowResponses, c \in FollowResponses}

Line(text) == [kind |-> "line", text |-> text]

NoAnswer == [kind |-> "none", text |-> <<>>]

\* what the user may do at the prompt: type a line, or close the input
Answers ==
    {Line(<<"y">>), Line(<<"Y", "e", "s">>), Line(<<" ", "y">>), Line(<<"n">>),
     Line(<<>>), Line(<<"o", "k">>), [kind |-> "eof", text |-> <<>>]}

\* the number of queries the sequential engine sends for the cleaned entry
cleaned_queries(cleaned) ==
    IF strip_braces(dict_get(cleaned, "title")) = <<>> THEN 0
    ELSE Len(queries_to_try(
             strip_braces(dict_get(cleaned, "title")),
             strip_braces(first_author_last_name(parse_bibtex_authors(dict_get(cleaned, "author")))),
             str_strip(str_strip(dict_get(cleaned, "year")))))

seq_queries(entry) ==
    IF "openalex" \in DOMAIN entry THEN 0 ELSE cleaned_queries(clean_bibtex_entry(entry))

\* the number of queries the concurrent engine sends for the cleaned entry
cleaned_queries_async(cleaned) ==
    IF strip_braces(dict_get(cleaned, "title")) = <<>> THEN 0
    ELSE Len(queries_to_try(
             strip_braces(dict_get(cleaned, "title")),
             strip_braces(dict_get(cleaned, "author_lastname")),
             str_strip(dict_get(cleaned, "year"))))

async_queries(entry) ==
    IF "openalex" \in DOMAIN entry THEN 0 ELSE cleaned_queries_async(clean_bibtex_entry(entry))

NoResult ==
    Result(<<>>, <<>>, FALSE, "none", 0, NoFetch(<<>>), 0, <<>>, NoBest)

IdleRun == [phase |-> "idle"]

IdleSys == [phase |-> "idle"]

(***************************************************************************)
(* The per-entry specification: one citation, one call of an engine        *)
(***************************************************************************)
Init ==
    /\ pc = "ready"
    /\ mode = "none"
    /\ entry0 \in Entries
    /\ user_interaction \in BOOLEAN
    /\ strict \in BOOLEAN
    /\ res = NoResult
    /\ run = IdleRun
    /\ sys = IdleSys

\* process_bib_entry_by_title(entry0, user_interaction, strict) on an empty cache
CallSeq ==
    /\ pc = "ready"
    /\ \E remote \in Remotes(seq_queries(entry0)) :
         LET dry == process_bib_entry_by_title(entry0, user_interaction, strict, <<>>, remote, NoAnswer)
         IN  \E answer \in (IF dry.prompts # <<>> THEN Answers ELSE {NoAnswer}) :
                res' = process_bib_entry_by_title(entry0, user_interaction, strict, <<>>, remote, answer)
    /\ pc' = "done"
    /\ mode' = "seq"
    /\ UNCHANGED <<entry0, user_interaction, strict, run, sys>>

\* process_bib_entry_by_title_async(entry0, client, user_interaction, strict)
CallAsync ==
    /\ pc = "ready"
    /\ \E remote \in Remotes(async_queries(entry0)) :
         res' = process_bib_entry_by_title_async(entry0, user_interaction, strict, <<>>, remote)
    /\ pc' = "done"
    /\ mode' = "async"
    /\ UNCHANGED <<entry0, user_interaction, strict, run, sys>>

Next == CallSeq \/ CallAsync

Spec == Init /\ [][Next]_vars

(***************************************************************************)
(* Whole-file runs: handle_process (alexify/core.py) and                   *)
(* handle_process_concurrent (alexify/core_concurrent.py)                  *)
(*                                                                          *)
(* run holds the position of the run (phase), the entries of the loaded    *)
(* file as they are now and as they were loaded, the counters, what was    *)
(* written, and which entries a DOI-resolution or a search request was     *)
(* made for.                                                                *)
(***************************************************************************)
\* the elements of a set of numbers in ascending order
sorted_seq(S) ==
    [k \in 1..Cardinality(S) |-> CHOOSE x \in S : Cardinality({y \in S : y < x}) = k - 1]

\* with_dois of handle_process, as positions in entries
with_dois(entries) ==
    {i \in 1..Len(entries) : "doi" \in DOMAIN entries[i] /\ entries[i]["doi"] # <<>>}

\* without_dois of handle_process
without_dois(entries) == (1..Len(entries)) \ with_dois(entries)

\* the entries process_bib_entries_by_dois_concurrent takes the DOI of
doi_indices(entries) ==
    {i \in 1..Len(entries) : "doi" \in DOMAIN entries[i] /\ "openalex" \notin DOMAIN entries[i]}

\* entries_to_process of handle_process_concurrent
entries_to_process(entries) ==
    {i \in 1..Len(entries) : "doi" \notin DOMAIN entries[i] /\ "openalex" \notin DOMAIN entries[i]}

\* the loop "for entry, wid in zip(...): if wid: entry["openalex"] = wid" over
\* the entries at the positions idx (ascending), ids being the fetched list
zip_update(entries, idx, ids) ==
    [i \in 1..Len(entries) |->
        IF i \in idx /\ ids[Cardinality({j \in idx : j <= i})] \notin {None, <<>>}
        THEN dict_set(entries[i], "openalex", ids[Cardinality({j \in idx : j <= i})])
        ELSE entries[i]]

\* the positions whose DOI went out in a request: the DOI was not empty
sent_indices(idx, dois) ==
    {i \in idx : dois[Cardinality({j \in idx : j <= i})] # <<>>}

\* process_bib_entries_by_dois(entries_with_dois): the DOIs are stripped
seq_dois(entries, idx) ==
    [k \in 1..Cardinality(idx) |-> str_strip(entries[sorted_seq(idx)[k]]["doi"])]

\* process_bib_entries_by_dois_concurrent: the DOIs are taken as they are
conc_dois(entries, idx) ==
    [k \in 1..Cardinality(idx) |-> entries[sorted_seq(idx)[k]]["doi"]]

\* save_bib_file(bib_path, bib_db): open(bib_path, "w") raises on a path that
\* is no string, the error is logged and nothing is written
save_bib_file(path_is_str, entries) ==
    IF path_is_str THEN [written |-> <<entries>>, error |-> FALSE]
    ELSE [written |-> <<>>, error |-> TRUE]

\* most entries of a loaded file
MaxEntries == 2

RunTitle == <<"T">>

RunDoi == <<"d", "1">>

\* the entries of a file: a title, with or without a DOI (possibly empty) and
\* with or without an identifier from an earlier run
RunEntries ==
    {("title" :> RunTitle) @@ d @@ o :
        d \in Optional("doi", {<<>>, RunDoi}), o \in Optional("openalex", StoredIds)}

DoiWork(doi, id) == [kind |-> "work", doi |-> doi, id |-> id, score |-> 0]

\* what the catalog may answer to a DOI-resolution request for the DOIs ds
DoiAnswers == {"all", "first", "none", "junk", "timeout"}

doi_server(kind, ds) ==
    IF kind = "all" THEN Ok([i \in 1..Len(ds) |-> DoiWork(ds[i], ID1)])
    ELSE IF kind = "first" THEN Ok([i \in 1..(IF ds = <<>> THEN 0 ELSE 1) |-> DoiWork(ds[i], ID2)])
    ELSE IF kind = "none" THEN Ok(<<>>)
    ELSE IF kind = "junk" THEN Ok(<<Junk>>)
    ELSE [kind |-> "timeout", body |-> NoneData]

\* what the catalog may answer to the search for an entry of the file
RunResponses ==
    {Ok(<<>>), Ok(<<Work(ID1, 95)>>), Ok(<<Work(ID2, 75)>>), Ok(<<Work(ID1, 50)>>),
     Ok(<<Junk>>), [kind |-> "timeout", body |-> NoneData]}

RunAnswers == {Line(<<"y">>), Line(<<"n">>)}

StartRun(entries, out_exists, force) ==
    [phase |-> "start", pipeline |-> "none", entries |-> entries, loaded |-> entries,
     out_exists |-> out_exists, force |-> force, todo |-> <<>>, modified |-> FALSE,
     success_count |-> 0, fail_count |-> 0, doi_sent |-> {}, doi_requests |-> <<>>,
     searched |-> {}, saved |-> <<>>, save_error |-> FALSE, cache |-> <<>>,
     log |-> <<>>, shutdown |-> FALSE]

\* what a run did, in order: Ev("doi_call", 0), Ev("doi_request", 0),
\* Ev("doi_return", 0), Ev("title", i) when the title engine is called for
\* entry i, Ev("search", i) per search request, Ev("raised", i) when the call
\* for entry i raises, Ev("write", 0) when the output file is written,
\* Ev("shutdown", 0) when shutdown is requested, Ev("load", 0) when the
\* input file is loaded
Ev(name, i) == [ev |-> name, i |-> i]

doi_events(f) ==
    <<Ev("doi_call", 0)>> \o [k \in 1..Len(f.requests) |-> Ev("doi_request", 0)]
        \o <<Ev("doi_return", 0)>>

title_events(i, r1) ==
    <<Ev("title", i)>> \o [k \in 1..Len(r1.requests) |-> Ev("search", i)]
        \o (IF r1.raised THEN <<Ev("raised", i)>> ELSE <<>>)

write_events(s) == IF s.written # <<>> THEN <<Ev("write", 0)>> ELSE <<>>

InitRun ==
    /\ pc = "file"
    /\ mode = "none"
    /\ entry0 = <<>>
    /\ user_interaction \in BOOLEAN
    /\ strict \in BOOLEAN
    /\ res = NoResult
    /\ sys = IdleSys
    /\ \E entries \in SeqsUpTo(RunEntries, MaxEntries), out_exists \in BOOLEAN, force \in BOOLEAN :
         run = StartRun(entries, out_exists, force)

\* a handle_process that starts with Step B
HandleProcessTitleFirst ==
    /\ run.phase = "start"
    /\ run' = [run EXCEPT !.pipeline = "seq", !.phase = "title",
                          !.todo = sorted_seq(without_dois(run.entries))]
    /\ UNCHANGED <<pc, mode, entry0, user_interaction, strict, res, sys>>

\* a handle_process that never skips
HandleProcessNoSkip ==
    /\ run.phase = "start"
    /\ run' = [run EXCEPT !.pipeline = "seq", !.phase = "doi",
                          !.log = @ \o <<Ev("load", 0)>>]
    /\ UNCHANGED <<pc, mode, entry0, user_interaction, strict, res, sys>>

\* handle_process up to the load: "If new_bib exists and not forced => skip"
HandleProcess ==
    /\ run.phase = "start"
    /\ run' = [run EXCEPT !.pipeline = "seq",
                          !.phase = IF run.out_exists /\ ~run.force THEN "done" ELSE "doi",
                          !.log = IF run.out_exists /\ ~run.force THEN @
                                  ELSE @ \o <<Ev("load", 0)>>]
    /\ UNCHANGED <<pc, mode, entry0, user_interaction, strict, res, sys>>

\* handle_process_concurrent up to the load
HandleProcessConcurrent ==
    /\ run.phase = "start"
    /\ run' = [run EXCEPT !.pipeline = "conc",
                          !.phase = IF run.out_exists /\ ~run.force THEN "done" ELSE "doi",
                          !.log = IF run.out_exists /\ ~run.force THEN @
                                  ELSE @ \o <<Ev("load", 0)>>]
    /\ UNCHANGED <<pc, mode, entry0, user_interaction, strict, res, sys>>

\* "for e in with_dois: if "openalex" in e: success_count += 1"
count_success(r, idx) ==
    [r EXCEPT !.success_count = Cardinality({i \in idx : "openalex" \in DOMAIN r.entries[i]})]

\* Step A of handle_process, f being what fetch_openalex_works_by_dois gave
step_a_done(r, idx, dois, f) ==
    count_success(
        [r EXCEPT !.phase = "title",
                  !.entries = zip_update(r.entries, idx, f.ids),
                  !.modified = \E k \in 1..Len(f.ids) : f.ids[k] \notin {None, <<>>},
                  !.doi_sent = sent_indices(idx, dois),
                  !.doi_requests = f.requests,
                  !.log = @ \o doi_events(f),
                  !.todo = sorted_seq(without_dois(r.entries))],
        idx)

step_a_fetch(r, idx, dois, kind) ==
    step_a_done(r, idx, dois,
        fetch_openalex_works_by_dois(dois,
            <<doi_server(kind, valid_dois([i \in 1..Len(dois) |-> processed_doi(dois[i])]))>>))

step_a(r, idx, kind) == step_a_fetch(r, idx, seq_dois(r.entries, idx), kind)

\* "Step A: batch fetch by DOIs"
DoiStep ==
    /\ run.phase = "doi"
    /\ run.pipeline = "seq"
    /\ \E kind \in DoiAnswers : run' = step_a(run, with_dois(run.entries), kind)
    /\ UNCHANGED <<pc, mode, entry0, user_interaction, strict, res, sys>>

\* a Step B that writes the output file after each entry
step_b_saving(r, i, r1) ==
    [r EXCEPT !.entries[i] = r1.entry, !.cache = r1.cache, !.todo = Tail(@),
              !.modified = @ \/ r1.ret[1],
              !.saved = <<[r.entries EXCEPT ![i] = r1.entry]>>,
              !.log = @ \o title_events(i, r1) \o <<Ev("write", 0)>>]

\* one turn of "Step B: process title-based" for the entry at position i, r1
\* being what process_bib_entry_by_title did; an exception ends the run
step_b_done(r, i, r1) ==
    IF r1.raised
    THEN [r EXCEPT !.phase = "crashed", !.entries[i] = r1.entry, !.cache = r1.cache,
                   !.log = @ \o title_events(i, r1),
                   !.searched = IF r1.requests # <<>> THEN @ \cup {i} ELSE @]
    ELSE [r EXCEPT !.entries[i] = r1.entry, !.cache = r1.cache, !.todo = Tail(@),
                   !.log = @ \o title_events(i, r1),
                   !.modified = @ \/ r1.ret[1],
                   !.success_count = IF r1.ret[2] THEN @ + 1 ELSE @,
                   !.fail_count = IF r1.ret[2] THEN @ ELSE @ + 1,
                   !.searched = IF r1.requests # <<>> THEN @ \cup {i} ELSE @]

TitleStep ==
    /\ run.phase = "title"
    /\ run.pipeline = "seq"
    /\ run.todo # <<>>
    /\ \E server \in RunResponses, answer \in RunAnswers :
         run' = step_b_done(run, Head(run.todo),
                    process_bib_entry_by_title(run.entries[Head(run.todo)], user_interaction,
                                               strict, run.cache, <<server>>, answer))
    /\ UNCHANGED <<pc, mode, entry0, user_interaction, strict, res, sys>>

\* "if modified: save_bib_file(new_bib, db)"
save_if_modified(r, s) ==
    IF r.modified
    THEN [r EXCEPT !.phase = "done", !.saved = s.written, !.save_error = s.error,
                   !.log = @ \o write_events(s)]
    ELSE [r EXCEPT !.phase = "done"]

SaveStep ==
    /\ run.phase = "title"
    /\ run.pipeline = "seq"
    /\ run.todo = <<>>
    /\ run' = save_if_modified(run, save_bib_file(TRUE, run.entries))
    /\ UNCHANGED <<pc, mode, entry0, user_interaction, strict, res, sys>>

\* process_bib_entries_by_dois_concurrent, f being what
\* fetch_openalex_works_by_dois_async gave; an exception ends the run
conc_doi_done(r, idx, dois, f) ==
    IF f.raised
    THEN [r EXCEPT !.phase = "crashed", !.doi_sent = sent_indices(idx, dois),
                   !.doi_requests = f.requests,
                   !.log = @ \o <<Ev("doi_call", 0)>>
                              \o [k \in 1..Len(f.requests) |-> Ev("doi_request", 0)]
                              \o <<Ev("raised", 0)>>]
    ELSE [r EXCEPT !.phase = "title",
                   !.entries = zip_update(r.entries, idx, f.ids),
                   !.doi_sent = sent_indices(idx, dois),
                   !.doi_requests = f.requests,
                   !.log = @ \o doi_events(f),
                   !.todo = sorted_seq(entries_to_process(zip_update(r.entries, idx, f.ids)))]

conc_doi_fetch(r, idx, dois, kind) ==
    conc_doi_done(r, idx, dois,
        fetch_openalex_works_by_dois_async(dois,
            <<doi_server(kind, valid_dois([i \in 1..Len(dois) |-> processed_doi(dois[i])]))>>))

conc_doi(r, idx, kind) == conc_doi_fetch(r, idx, conc_dois(r.entries, idx), kind)

DoiStepConcurrent ==
    /\ run.phase = "doi"
    /\ run.pipeline = "conc"
    /\ \E kind \in DoiAnswers : run' = conc_doi(run, doi_indices(run.entries), kind)
    /\ UNCHANGED <<pc, mode, entry0, user_interaction, strict, res, sys>>

\* one task of process_entries_batch_async, for the entry at todo[k]
task_done(r, k, r1) ==
    IF r1.raised
    THEN [r EXCEPT !.phase = "crashed", !.entries[r.todo[k]] = r1.entry, !.cache = r1.cache,
                   !.log = @ \o title_events(r.todo[k], r1),
                   !.searched = IF r1.requests # <<>> THEN @ \cup {r.todo[k]} ELSE @]
    ELSE [r EXCEPT !.entries[r.todo[k]] = r1.entry, !.cache = r1.cache,
                   !.log = @ \o title_events(r.todo[k], r1),
                   !.todo = SubSeq(@, 1, k - 1) \o SubSeq(@, k + 1, Len(@)),
                   !.searched = IF r1.requests # <<>> THEN @ \cup {r.todo[k]} ELSE @]

\* the tasks of a batch run in any order
TitleStepConcurrent ==
    /\ run.phase = "title"
    /\ run.pipeline = "conc"
    /\ \E k \in 1..Len(run.todo), server \in RunResponses :
         run' = task_done(run, k,
                    process_bib_entry_by_title_async(run.entries[run.todo[k]], user_interaction,
                                                     strict, run.cache, <<server>>))
    /\ UNCHANGED <<pc, mode, entry0, user_interaction, strict, res, sys>>

save_done(r, s) ==
    [r EXCEPT !.phase = "done", !.saved = s.written, !.save_error = s.error,
              !.log = @ \o write_events(s)]

\* "save_bib_file(db, outfile)": the database is passed where the path belongs
SaveStepConcurrent ==
    /\ run.phase = "title"
    /\ run.pipeline = "conc"
    /\ run.todo = <<>>
    /\ run' = save_done(run, save_bib_file(FALSE, run.entries))
    /\ UNCHANGED <<pc, mode, entry0, user_interaction, strict, res, sys>>

\* GracefulShutdown.request_shutdown: "self._shutdown_event.set()"; the
\* pipelines never read the event
request_shutdown(r) == [r EXCEPT !.shutdown = TRUE, !.log = @ \o <<Ev("shutdown", 0)>>]

RequestShutdown ==
    /\ run.phase \in {"doi", "title"}
    /\ ~run.shutdown
    /\ run' = request_shutdown(run)
    /\ UNCHANGED <<pc, mode, entry0, user_interaction, strict, res, sys>>

NextRun ==
    \/ HandleProcess
    \/ DoiStep
    \/ TitleStep
    \/ SaveStep
    \/ HandleProcessConcurrent
    \/ DoiStepConcurrent
    \/ TitleStepConcurrent
    \/ SaveStepConcurrent
    \/ RequestShutdown

SpecRun == InitRun /\ [][NextRun]_vars

(***************************************************************************)
(* Properties                                                               *)
(***************************************************************************)
SeqDone == pc = "done" /\ mode = "seq"

AsyncDone == pc = "done" /\ mode = "async"

HasId(entry) == "openalex" \in DOMAIN entry

\* the thresholds as the specification states them
SpecHigh == IF strict THEN 90 ELSE 85

SpecMaybe == IF strict THEN 70 ELSE 60

EndsWith(s, t) == Len(t) <= Len(s) /\ SubSeq(s, Len(s) - Len(t) + 1, Len(s)) = t

\* the entry carries an identifier taken from the end of the best candidate's id
AttachedBest ==
    /\ HasId(res.entry)
    /\ res.entry["openalex"] # <<>>
    /\ EndsWith(res.best.id, res.entry["openalex"])

\* v is the final path segment of id
FinalSegment(id, v) ==
    /\ \A k \in 1..Len(v) : v[k] # "/"
    /\ EndsWith(id, <<"/">> \o v)

UrlShaped(id) == \E k \in 1..Len(id) : k + 2 <= Len(id) /\ SubSeq(id, k, k + 2) = <<":", "/", "/">>

\* C1: for an entry that already has the 'openalex' field, whatever the flags,
\* process_bib_entry_by_title returns (False, True), makes no candidate
\* retrieval and no search request, computes no score, asks nothing, and
\* leaves the identifier as it was.
C1_SkipAlreadyMatched ==
    (SeqDone /\ HasId(entry0)) =>
        /\ ~res.raised
        /\ res.ret = <<FALSE, TRUE>>
        /\ res.fetch_calls = 0
        /\ res.search_calls = 0
        /\ res.requests = <<>>
        /\ res.scored = 0
        /\ res.prompts = <<>>
        /\ HasId(res.entry)
        /\ res.entry["openalex"] = entry0["openalex"]

C1_Witness ==
    /\ SeqDone
    /\ HasId(entry0)
    /\ "title" \in DOMAIN entry0
    /\ entry0["title"] = <<"T">>
    /\ user_interaction
    /\ strict
    /\ res.ret = <<FALSE, TRUE>>

\* C2: in a whole-file run of either pipeline, an entry that has an identifier
\* when the file is loaded is unchanged at the end, and its DOI is in no
\* DOI-resolution request and no search request is made for it.
C2_IdentifiedEntriesUntouched ==
    run.phase = "done" =>
        \A i \in 1..Len(run.loaded) :
            HasId(run.loaded[i]) =>
                /\ run.entries[i] = run.loaded[i]
                /\ i \notin run.doi_sent
                /\ i \notin run.searched

\* C3: with a title, no identifier and candidates, the sequential engine
\* decides from the best score s and the flags: s >= high (85, strict 90)
\* attaches the best candidate's identifier and returns (True, True); so does
\* maybe <= s < high (maybe 60, strict 70) when not interactive; s < maybe
\* attaches nothing and returns (False, False).
C3_SequentialThresholds ==
    (SeqDone /\ ~HasId(entry0) /\ res.scored > 0) =>
        /\ res.best.score >= SpecHigh =>
              AttachedBest /\ res.ret = <<TRUE, TRUE>>
        /\ (SpecMaybe <= res.best.score /\ res.best.score < SpecHigh /\ ~user_interaction) =>
              AttachedBest /\ res.ret = <<TRUE, TRUE>>
        /\ res.best.score < SpecMaybe =>
              ~HasId(res.entry) /\ res.ret = <<FALSE, FALSE>>

C3_Witness ==
    /\ SeqDone
    /\ strict
    /\ ~user_interaction
    /\ res.scored > 0
    /\ res.best.score = 70
    /\ res.ret = <<TRUE, TRUE>>

\* C4: the concurrent engine, run without interaction, accepts a citation whose
\* best score is in the maybe band: the identifier of the best candidate is
\* attached and the call returns (True, True).
C4_ConcurrentMaybeAutoAccept ==
    (AsyncDone /\ ~user_interaction /\ ~HasId(entry0) /\ ~res.raised /\ res.scored > 0
       /\ SpecMaybe <= res.best.score /\ res.best.score < SpecHigh) =>
        AttachedBest /\ res.ret = <<TRUE, TRUE>>

\* C5: the concurrent engine accepts at the high tier exactly when the best
\* score is at least 85, or at least 90 in strict mode, as the sequential one.
C5_ConcurrentHighThreshold ==
    (AsyncDone /\ ~HasId(entry0) /\ ~res.raised /\ res.scored > 0) =>
        (HasId(res.entry) <=> res.best.score >= SpecHigh)

\* C6: one call of the sequential engine prompts at most once, and only in
\* interactive mode for an entry without identifier whose candidates were
\* scored with the best score in the maybe band.
C6_PromptOnlyInMaybeBand ==
    SeqDone =>
        /\ Len(res.prompts) <= 1
        /\ res.prompts # <<>> =>
              /\ user_interaction
              /\ ~HasId(entry0)
              /\ res.scored > 0
              /\ SpecMaybe <= res.best.score
              /\ res.best.score < SpecHigh

C6_Witness ==
    /\ SeqDone
    /\ Len(res.prompts) = 1
    /\ res.best.score = 60
    /\ ~strict

\* the answers that say yes
YesAnswers == {Line(<<"y">>), Line(<<"Y", "e", "s">>), Line(<<" ", "y">>)}

\* C7: a call that returns after finding no title, no candidates, a best score
\* below maybe, or an answer other than yes leaves the entry without
\* identifier and returns (False, False); an identifier is added only at the
\* high tier, at the maybe tier without interaction, or on a yes.
C7_RejectionLeavesEntryUnmatched ==
    (SeqDone /\ ~HasId(entry0) /\ ~res.raised) =>
        /\ (\/ res.scored = 0
            \/ res.best.score < SpecMaybe
            \/ (res.prompts # <<>> /\ res.prompts[1] \notin YesAnswers)) =>
              ~HasId(res.entry) /\ res.ret = <<FALSE, FALSE>>
        /\ HasId(res.entry) =>
              \/ res.best.score >= SpecHigh
              \/ (res.best.score >= SpecMaybe /\ ~user_interaction)
              \/ (res.prompts # <<>> /\ res.prompts[1] \in YesAnswers)

C7_Witness ==
    /\ SeqDone
    /\ res.prompts = <<Line(<<"o", "k">>)>>
    /\ ~HasId(res.entry)
    /\ res.ret = <<FALSE, FALSE>>

NoUsableTitle(entry) ==
    \/ "title" \notin DOMAIN entry
    \/ \A k \in 1..Len(entry["title"]) : entry["title"][k] \in WS \cup {"{", "}"}

\* C9: an entry without identifier and without usable title ends unmatched with
\* (False, False), nothing attached and no search call or request; and
\* fetch_all_candidates_for_entry gives [] for its title without calling
\* fetch_openalex_works, whatever the author and the year.
C9_NoTitleNoSearch ==
    (SeqDone /\ ~HasId(entry0) /\ NoUsableTitle(entry0)) =>
        /\ ~res.raised
        /\ res.ret = <<FALSE, FALSE>>
        /\ ~HasId(res.entry)
        /\ res.search_calls = 0
        /\ res.requests = <<>>
        /\ fetch_all_candidates_for_entry(dict_get(entry0, "title"), <<"S">>, <<"2", "1">>,
                                          <<>>, <<>>).results = <<>>
        /\ fetch_all_candidates_for_entry(dict_get(entry0, "title"), <<"S">>, <<"2", "1">>,
                                          <<>>, <<>>).calls = 0

C9_Witness ==
    /\ SeqDone
    /\ ~HasId(entry0)
    /\ "title" \in DOMAIN entry0
    /\ entry0["title"] = <<"{", "}">>
    /\ "author" \in DOMAIN entry0
    /\ res.fetch_calls = 1
    /\ res.ret = <<FALSE, FALSE>>

\* a retrieval that failed: no answer, an error status, or a malformed body
FailedRetrieval(reply) ==
    \/ reply \in Failures
    \/ /\ reply.kind = "ok"
       /\ reply.body.shape = "results"
       /\ \E k \in 1..Len(reply.body.results) : reply.body.results[k].kind = "junk"

\* C10: when every request of a call is a failed retrieval, fetch_openalex_works
\* gives [] for each, and process_bib_entry_by_title returns (False, False)
\* without raising and without attaching an identifier.
C10_FailedRetrievalIsNoMatch ==
    (SeqDone /\ ~HasId(entry0) /\ res.requests # <<>>
       /\ \A i \in 1..Len(res.requests) : FailedRetrieval(res.requests[i].reply)) =>
        /\ \A i \in 1..Len(res.requests) :
              fetch_openalex_works(res.requests[i].query, <<>>, res.requests[i].reply).works = <<>>
        /\ ~res.raised
        /\ res.ret = <<FALSE, FALSE>>
        /\ ~HasId(res.entry)

(***************************************************************************)
(* Whole-file runs: failures, order of the phases, the output file          *)
(***************************************************************************)
RunEnded == run.phase \in {"done", "crashed"}

\* positions of the log holding the event e
positions(log, e) == {k \in 1..Len(log) : log[k] = e}

events_named(log, name) == {k \in 1..Len(log) : log[k].ev = name}

\* the entries whose processing raised
failed(r) == {r.log[k].i : k \in events_named(r.log, "raised")} \ {0}

\* the entries that received an identifier in this run
attached(r) ==
    {i \in 1..Len(r.entries) : "openalex" \in DOMAIN r.entries[i]
                                  /\ "openalex" \notin DOMAIN r.loaded[i]}

\* C11: when the processing of one citation raised, the run still ends with
\* every other citation processed (none is left waiting) and with the
\* identifiers attached to other citations written to the output file.
C11_FailureDoesNotAbortBatch ==
    (RunEnded /\ failed(run) # {}) =>
        /\ \A k \in 1..Len(run.todo) : run.todo[k] \in failed(run)
        /\ (attached(run) \ failed(run) # {} => run.saved # <<>>)

\* C12: in a file run of either pipeline, every search request comes after
\* the return of the DOI-resolution call.
C12_DoiResolutionBeforeSearch ==
    \A k \in events_named(run.log, "search") :
        \E j \in events_named(run.log, "doi_return") : j < k

\* a run that resolved DOIs with a request and later searched by title
C12_Witness ==
    /\ run.phase = "done"
    /\ events_named(run.log, "doi_request") # {}
    /\ events_named(run.log, "search") # {}
\* the entries loaded with a non-empty DOI that have no identifier
unresolved_dois(r) ==
    {i \in 1..Len(r.entries) : /\ "doi" \in DOMAIN r.loaded[i]
                                /\ r.loaded[i]["doi"] # <<>>
                                /\ "openalex" \notin DOMAIN r.entries[i]}

\* C13: when a run has gone through both phases, every citation that carries
\* a DOI and got no identifier from the DOI resolution has been handed to the
\* title engine.
C13_UnresolvedDoiGoesToTitleMatching ==
    (run.phase = "done" /\ events_named(run.log, "doi_return") # {}) =>
        \A i \in unresolved_dois(run) : positions(run.log, Ev("title", i)) # {}
\* the event at position k belongs to work begun before position s
started_before(log, k, s) ==
    IF log[k].ev = "search"
    THEN \E t \in 1..(s - 1) : log[t] = Ev("title", log[k].i)
    ELSE \E t \in 1..(s - 1) : log[t].ev = "doi_call"

\* C19: once shutdown has been requested, the run sends no retrieval request
\* (search or DOI resolution) for a citation whose processing had not begun
\* when the request was made.
C19_NoNewRequestAfterShutdown ==
    \A s \in events_named(run.log, "shutdown") :
        \A k \in (events_named(run.log, "search") \cup events_named(run.log, "doi_request")) :
            k > s => started_before(run.log, k, s)

\* C20: the output file is written at most once, and only when the DOI phase
\* has returned and no citation waits for the title phase; nothing follows
\* the write.
C20_SingleWriteAfterAllProcessed ==
    /\ Cardinality(events_named(run.log, "write")) <= 1
    /\ \A w \in events_named(run.log, "write") :
          /\ w = Len(run.log)
          /\ run.todo = <<>>
          /\ run.phase = "done"
          /\ \E j \in events_named(run.log, "doi_return") : j < w
          /\ run.saved = <<run.entries>>

\* a sequential run over two entries that wrote its output after a search
C20_Witness ==
    /\ events_named(run.log, "write") # {}
    /\ events_named(run.log, "search") # {}
    /\ Len(run.entries) = 2
(***************************************************************************)
(* DOI resolution called on its own: fetch_openalex_works_by_dois and      *)
(* fetch_openalex_works_by_dois_async over lists of several batches         *)
(***************************************************************************)
\* longest list of DOIs handed to the resolution
MaxDois == 101

DoiLens == {0, 1, 2, 3, batch_size - 1, batch_size, batch_size + 1, MaxDois}

\* the DOIs a list may hold: plain, empty, upper case, missing (None)
DoiPool == <<<<"d", "1">>, <<>>, <<"D", "2">>, None>>

\* the list of n DOIs that walks through the pool from the offset off
doi_list(n, off) == [i \in 1..n |-> DoiPool[((i + off) % Len(DoiPool)) + 1]]

\* the catalog's record of the DOI d (it stores DOIs in lower case)
catalog_work(d) ==
    DoiWork(str_lower(d), OPENALEX_PREFIX \o <<"W", d[Len(d)]>>)

\* what the catalog may answer to the request for the DOIs ds
DoiReplies == {"all", "first", "none", "junk", "timeout", "bad_json"}

doi_reply(kind, ds) ==
    IF kind = "all" THEN Ok([i \in 1..Len(ds) |-> catalog_work(ds[i])])
    ELSE IF kind = "first" THEN Ok(<<catalog_work(ds[1])>>)
    ELSE IF kind = "none" THEN Ok(<<>>)
    ELSE IF kind = "junk" THEN Ok(<<catalog_work(ds[1]), Junk>>)
    ELSE [kind |-> kind, body |-> NoneData]

num_batches(n) == (n + batch_size - 1) \div batch_size

\* the answers to the batches: kind ka for odd batches, kb for even ones
doi_servers(dois, ka, kb) ==
    [b \in 1..num_batches(Len(dois)) |->
        IF valid_dois(batch_at([i \in 1..Len(dois) |-> processed_doi(dois[i])], b)) = <<>>
        THEN Ok(<<>>)
        ELSE doi_reply(IF b % 2 = 1 THEN ka ELSE kb,
                 valid_dois(batch_at([i \in 1..Len(dois) |-> processed_doi(dois[i])], b)))]

DoiCall(dois, servers) ==
    [phase |-> "ready", fn |-> "none", dois |-> dois, servers |-> servers,
     out |-> [ids |-> <<>>, requests |-> <<>>, raised |-> FALSE]]

InitDoi ==
    /\ pc = "doi"
    /\ mode = "none"
    /\ entry0 = <<>>
    /\ user_interaction = FALSE
    /\ strict = FALSE
    /\ res = NoResult
    /\ run = IdleRun
    /\ \E n \in DoiLens, off \in 0..(Len(DoiPool) - 1), ka \in DoiReplies, kb \in DoiReplies :
         sys = DoiCall(doi_list(n, off), doi_servers(doi_list(n, off), ka, kb))

CallDois ==
    /\ sys.phase = "ready"
    /\ sys' = [sys EXCEPT !.phase = "returned", !.fn = "sync",
                          !.out = fetch_openalex_works_by_dois(sys.dois, sys.servers)]
    /\ UNCHANGED <<pc, mode, entry0, user_interaction, strict, res, run>>

CallDoisAsync ==
    /\ sys.phase = "ready"
    /\ sys' = [sys EXCEPT !.phase = "returned", !.fn = "async",
                          !.out = fetch_openalex_works_by_dois_async(sys.dois, sys.servers)]
    /\ UNCHANGED <<pc, mode, entry0, user_interaction, strict, res, run>>

NextDoi == CallDois \/ CallDoisAsync

SpecDoi == InitDoi /\ [][NextDoi]_vars

\* the works the catalog listed for the batch of position i
listed_for(servers, i) == servers[((i - 1) \div batch_size) + 1].body.results

\* the work w is the record of the DOI d
is_work_of(w, d) ==
    /\ w.kind = "work"
    /\ w.doi # <<>>
    /\ str_lower(w.doi) = str_lower(processed_doi(d))

\* the short identifiers the catalog listed for the DOI d at position i
listed_ids(servers, i, d) ==
    {rsplit_last(listed_for(servers, i)[k].id, "/") :
        k \in {j \in 1..Len(listed_for(servers, i)) : is_work_of(listed_for(servers, i)[j], d)}}

\* C14: the resolution returns a list as long as its input; position i holds
\* None when input i is empty or missing, else the short identifier of a work
\* the catalog listed under DOI i, or None when it listed none; an empty input
\* gives an empty list without a request.
C14_SameLengthPositional ==
    sys.phase = "returned" =>
        /\ ~sys.out.raised
        /\ Len(sys.out.ids) = Len(sys.dois)
        /\ (sys.dois = <<>> => sys.out.requests = <<>>)
        /\ \A i \in 1..Len(sys.out.ids) :
              IF processed_doi(sys.dois[i]) = None THEN sys.out.ids[i] = None
              ELSE IF listed_ids(sys.servers, i, sys.dois[i]) = {} THEN sys.out.ids[i] = None
              ELSE sys.out.ids[i] \in listed_ids(sys.servers, i, sys.dois[i]) \cup {None}
(***************************************************************************)
(* The searches called one after the other, as handle_process does, each   *)
(* over its module's cache                                                 *)
(***************************************************************************)
\* largest maxsize the caches are built with
MaxCap == 2

QA == <<"a">>

QB == <<"b">>

TextQueries == {QA, QB}

SearchQueries == TextQueries \cup {<<>>, None, NonText}

\* a 200 response whose JSON object has no "results"
NoResultsReply == [kind |-> "ok", body |-> [shape |-> "no_results", results |-> <<>>]]

\* the answers with which a search fails: retries used up by timeouts,
\* transport errors or retry statuses, an error status, a body that is no
\* JSON, a response that fails the validation
FailedReplies == Failures \cup {NoResultsReply}

SearchReplies ==
    {Ok(<<Work(ID1, 95)>>), Ok(<<Work(ID2, 75)>>), Ok(<<>>)} \cup FailedReplies

\* no request was sent
NoReply == [kind |-> "none", body |-> NoneData]

\* what is known of a query: the list its last successful search returned,
\* while the query has not been evicted and the cache not cleared
Unknown == [valid |-> FALSE, works |-> <<>>]

Known(works) == [valid |-> TRUE, works |-> works]

NoCall ==
    [fn |-> "none", query |-> <<>>, works |-> <<>>, requested |-> FALSE, ops |-> <<>>,
     cache0 |-> <<>>, cache1 |-> <<>>, expected |-> Unknown, reply |-> NoReply,
     after_failed |-> FALSE]

SearchSys(cap) ==
    [phase |-> "search", cap |-> cap, cache |-> <<>>, acache |-> <<>>,
     known |-> [q \in TextQueries |-> Unknown], last |-> NoCall]

InitSearch ==
    /\ pc = "search"
    /\ mode = "none"
    /\ entry0 = <<>>
    /\ user_interaction = FALSE
    /\ strict = FALSE
    /\ res = NoResult
    /\ run = IdleRun
    /\ \E cap \in 1..MaxCap : sys = SearchSys(cap)

\* what is known after the call f for the query q over the cache c
known_after(known, q, c, f) ==
    [k \in TextQueries |->
        IF k = q /\ f.ops = <<"get", "put">> THEN Known(f.works)
        ELSE IF cache_has(c, k) /\ ~cache_has(f.cache, k) THEN Unknown
        ELSE known[k]]

expected_of(known, q) == IF q \in TextQueries THEN known[q] ELSE Unknown

\* the call before was a search of the same function for the same query that
\* sent a request and failed
failed_search(last) == last.fn # "none" /\ last.requested /\ last.reply \in FailedReplies

called(fn, q, c, f, known, server, before) ==
    [fn |-> fn, query |-> q, works |-> f.works, requested |-> f.requested, ops |-> f.ops,
     cache0 |-> c, cache1 |-> f.cache, expected |-> expected_of(known, q),
     reply |-> IF f.requested THEN server ELSE NoReply,
     after_failed |-> failed_search(before) /\ before.fn = fn /\ before.query = q]

search_done(y, q, f, server) ==
    [y EXCEPT !.cache = f.cache, !.known = known_after(y.known, q, y.cache, f),
              !.last = called("sync", q, y.cache, f, y.known, server, y.last)]

\* a call of fetch_openalex_works
Search ==
    /\ sys.phase = "search"
    /\ \E q \in SearchQueries, server \in SearchReplies :
         sys' = search_done(sys, q, fetch_openalex_works_cap(q, sys.cache, server, sys.cap),
                            server)
    /\ UNCHANGED <<pc, mode, entry0, user_interaction, strict, res, run>>

search_async_done(y, q, f, server) ==
    [y EXCEPT !.acache = f.cache, !.last = called("async", q, y.acache, f, y.known, server, y.last)]

\* a call of fetch_openalex_works_async
SearchAsync ==
    /\ sys.phase = "search"
    /\ \E q \in SearchQueries, server \in SearchReplies :
         sys' = search_async_done(sys, q,
                    fetch_openalex_works_async(q, sys.acache, server, sys.cap), server)
    /\ UNCHANGED <<pc, mode, entry0, user_interaction, strict, res, run>>

\* _SEARCH_CACHE.clear()
ClearCache ==
    /\ sys.phase = "search"
    /\ sys.cache # <<>>
    /\ sys' = [sys EXCEPT !.cache = BoundedCache_clear(sys.cache),
                          !.known = [q \in TextQueries |-> Unknown],
                          !.last = NoCall]
    /\ UNCHANGED <<pc, mode, entry0, user_interaction, strict, res, run>>

NextSearch == Search \/ SearchAsync \/ ClearCache

SpecSearch == InitSearch /\ [][NextSearch]_vars

\* C15: a search with an empty, None or non-text query, sync or async,
\* returns the empty list, sends no request and neither reads nor writes the
\* cache, which it leaves as it was.
C15_NoQueryNoRequestNoCache ==
    (sys.last.fn # "none" /\ sys.last.query \in {<<>>, None, NonText}) =>
        /\ sys.last.works = <<>>
        /\ ~sys.last.requested
        /\ sys.last.ops = <<>>
        /\ sys.last.cache1 = sys.last.cache0

\* an async search with the None query over a cache that holds results
C15_Witness ==
    /\ sys.last.fn = "async"
    /\ sys.last.query = None
    /\ sys.last.cache0 # <<>>
    /\ sys.cache # <<>>

\* C16: a search for a query whose earlier search succeeded, and which has
\* since been neither evicted nor cleared, returns the list of that search
\* and sends no request.
C16_CachedSearchRepeats ==
    (sys.last.fn = "sync" /\ sys.last.expected.valid) =>
        /\ sys.last.works = sys.last.expected.works
        /\ ~sys.last.requested

\* a repeated search answered from a cache that holds another query as well
C16_Witness ==
    /\ sys.last.fn = "sync"
    /\ sys.last.expected.valid
    /\ sys.last.works # <<>>
    /\ Len(sys.cache) = 2
(***************************************************************************)
(* BoundedCache used by threads and AsyncBoundedCache used by coroutines:  *)
(* every method runs its body holding the cache's lock                     *)
(***************************************************************************)
\* number of workers that use one cache
NumWorkers == 2

Workers == 1..NumWorkers

V1 == <<Work(ID1, 95)>>

V2 == <<Work(ID2, 75)>>

CacheValues == {V1, V2}

\* what the get that has just returned was asked and gave: None or a value
NoRet == [given |-> "pending", key |-> <<>>, value |-> <<>>]

RetNone(key) == [given |-> "None", key |-> key, value |-> <<>>]

Ret(key, value) == [given |-> "value", key |-> key, value |-> value]

IdleWorker == [pc |-> "idle", op |-> "none", key |-> <<>>, value |-> <<>>]

\* kind "sync" is a BoundedCache shared by threads, kind "async" an
\* AsyncBoundedCache shared by coroutines; lock 0 is the free lock; puts holds
\* the <<key, value>> stored so far
CacheSys(kind, cap) ==
    [phase |-> "cache", kind |-> kind, cap |-> cap, store |-> <<>>, lock |-> 0,
     w |-> [i \in Workers |-> IdleWorker], puts |-> {}, got |-> NoRet]

InitCache ==
    /\ pc = "cache"
    /\ mode = "none"
    /\ entry0 = <<>>
    /\ user_interaction = FALSE
    /\ strict = FALSE
    /\ res = NoResult
    /\ run = IdleRun
    /\ \E kind \in {"sync", "async"}, cap \in 1..MaxCap : sys = CacheSys(kind, cap)

\* a lock that lets everybody in
lock_free_always(y) == TRUE

\* "with self._lock" / "async with self._lock" can enter
lock_free(y) == y.lock = 0

\* the calls of get(key), put(key, value) and clear()
CacheCalls ==
    {[pc |-> "want", op |-> "get", key |-> k, value |-> <<>>] : k \in TextQueries}
    \cup {[pc |-> "want", op |-> "put", key |-> k, value |-> v] :
             k \in TextQueries, v \in CacheValues}
    \cup {[pc |-> "want", op |-> "clear", key |-> <<>>, value |-> <<>>]}

\* a worker calls get, put or clear
CacheCall ==
    /\ sys.phase = "cache"
    /\ \E i \in Workers, c \in CacheCalls :
         /\ sys.w[i].pc = "idle"
         /\ sys' = [sys EXCEPT !.w[i] = c, !.got = NoRet]
    /\ UNCHANGED <<pc, mode, entry0, user_interaction, strict, res, run>>

\* the worker takes the lock
CacheAcquire ==
    /\ sys.phase = "cache"
    /\ \E i \in Workers :
         /\ sys.w[i].pc = "want"
         /\ lock_free(sys)
         /\ sys' = [sys EXCEPT !.lock = i, !.w[i].pc = "locked", !.got = NoRet]
    /\ UNCHANGED <<pc, mode, entry0, user_interaction, strict, res, run>>

\* the first statements of a method of BoundedCache:
\* get: "if key not in self._cache: return None" else "value = self._cache.pop(key)";
\* put: "if key in self._cache: pop(key)" "elif len >= maxsize: popitem(last=False)";
\* clear: "self._cache.clear()"
first_half(y, i, me) ==
    IF me.op = "get"
    THEN IF ~cache_has(y.store, me.key)
         THEN [y EXCEPT !.lock = 0, !.w[i] = IdleWorker, !.got = RetNone(me.key)]
         ELSE [y EXCEPT !.store = cache_without(@, me.key), !.got = NoRet,
                        !.w[i].value = cache_value(y.store, me.key), !.w[i].pc = "mid"]
    ELSE IF me.op = "put"
    THEN IF cache_has(y.store, me.key)
         THEN [y EXCEPT !.store = cache_without(@, me.key), !.w[i].pc = "mid", !.got = NoRet]
         ELSE IF Len(y.store) >= y.cap
              THEN [y EXCEPT !.store = Tail(@), !.w[i].pc = "mid", !.got = NoRet]
              ELSE [y EXCEPT !.w[i].pc = "mid", !.got = NoRet]
    ELSE [y EXCEPT !.store = BoundedCache_clear(@), !.lock = 0, !.w[i] = IdleWorker,
                   !.got = NoRet]

\* "self._cache[key] = value" and the return, which frees the lock
second_half(y, i, me) ==
    IF me.op = "get"
    THEN [y EXCEPT !.store = Append(cache_without(@, me.key), [key |-> me.key, value |-> me.value]),
                   !.lock = 0, !.w[i] = IdleWorker, !.got = Ret(me.key, me.value)]
    ELSE [y EXCEPT !.store = Append(cache_without(@, me.key), [key |-> me.key, value |-> me.value]),
                   !.puts = @ \cup {<<me.key, me.value>>},
                   !.lock = 0, !.w[i] = IdleWorker, !.got = NoRet]

\* a thread runs the first statements of its method
ThreadFirstHalf ==
    /\ sys.phase = "cache"
    /\ sys.kind = "sync"
    /\ \E i \in Workers :
         /\ sys.w[i].pc = "locked"
         /\ sys' = first_half(sys, i, sys.w[i])
    /\ UNCHANGED <<pc, mode, entry0, user_interaction, strict, res, run>>

\* a thread stores the entry and returns
ThreadSecondHalf ==
    /\ sys.phase = "cache"
    /\ sys.kind = "sync"
    /\ \E i \in Workers :
         /\ sys.w[i].pc = "mid"
         /\ sys' = second_half(sys, i, sys.w[i])
    /\ UNCHANGED <<pc, mode, entry0, user_interaction, strict, res, run>>

\* the body of a method of AsyncBoundedCache: it has no await, the
\* coroutine runs it in one go
async_body(y, i, me) ==
    IF me.op = "get"
    THEN [y EXCEPT !.store = AsyncBoundedCache_get(@, me.key), !.lock = 0, !.w[i] = IdleWorker,
                   !.got = IF cache_has(y.store, me.key)
                           THEN Ret(me.key, cache_value(y.store, me.key))
                           ELSE RetNone(me.key)]
    ELSE IF me.op = "put"
    THEN [y EXCEPT !.store = AsyncBoundedCache_put(@, me.key, me.value, y.cap),
                   !.puts = @ \cup {<<me.key, me.value>>},
                   !.lock = 0, !.w[i] = IdleWorker, !.got = NoRet]
    ELSE [y EXCEPT !.store = <<>>, !.lock = 0, !.w[i] = IdleWorker, !.got = NoRet]

CoroutineBody ==
    /\ sys.phase = "cache"
    /\ sys.kind = "async"
    /\ \E i \in Workers :
         /\ sys.w[i].pc = "locked"
         /\ sys' = async_body(sys, i, sys.w[i])
    /\ UNCHANGED <<pc, mode, entry0, user_interaction, strict, res, run>>

NextCache ==
    \/ CacheCall
    \/ CacheAcquire
    \/ ThreadFirstHalf
    \/ ThreadSecondHalf
    \/ CoroutineBody

SpecCache == InitCache /\ [][NextCache]_vars

\* C17: whatever the workers do, the cache never holds more than maxsize
\* entries, and a get that returned gave None or a value put before under
\* the key it asked for.
C17_CacheBoundedAndFaithful ==
    /\ Len(sys.store) <= sys.cap
    /\ sys.got.given = "value" => <<sys.got.key, sys.got.value>> \in sys.puts

\* a full cache of threads where a get returned a value while another worker
\* waits for the lock with a put
C17_Witness ==
    /\ sys.kind = "sync"
    /\ Len(sys.store) = sys.cap
    /\ sys.got.given = "value"
    /\ \E j \in Workers : sys.w[j].pc = "want" /\ sys.w[j].op = "put"
(***************************************************************************)
(* The requests of a concurrent run: the coroutines gathered by            *)
(* run_async_process (DOI batches, searches) or by run_async_fetch (work   *)
(* details), and the request semaphore                                     *)
(***************************************************************************)
\* number of coroutines that want to send a request
NumTasks == 3

\* largest configured max_concurrent_requests
MaxLimit == 2

Tasks == 1..NumTasks

NewTask(kind) == [kind |-> kind, pc |-> "new"]

\* the kinds of request a run gathers: handle_process_concurrent sends DOI
\* batches and searches, handle_fetch_concurrent sends work-detail fetches
TaskKinds(command) == IF command = "process" THEN {"doi", "search"} ELSE {"detail"}

\* _request_semaphore is asyncio.Semaphore(_CONFIG["max_concurrent_requests"])
FlightSys(command, limit, t) ==
    [phase |-> "flight", command |-> command, max_concurrent_requests |-> limit,
     _request_semaphore |-> limit, t |-> t]

InitFlight ==
    /\ pc = "flight"
    /\ mode = "none"
    /\ entry0 = <<>>
    /\ user_interaction = FALSE
    /\ strict = FALSE
    /\ res = NoResult
    /\ run = IdleRun
    /\ \E command \in {"process", "fetch"}, limit \in 1..MaxLimit :
         \E kinds \in [Tasks -> TaskKinds(command)] :
            sys = FlightSys(command, limit, [i \in Tasks |-> NewTask(kinds[i])])

\* fetch_openalex_works_async awaits its request: no semaphore is taken
SendSearch ==
    /\ sys.phase = "flight"
    /\ \E i \in Tasks :
         /\ sys.t[i] = NewTask("search")
         /\ sys' = [sys EXCEPT !.t[i].pc = "flight"]
    /\ UNCHANGED <<pc, mode, entry0, user_interaction, strict, res, run>>

\* fetch_openalex_works_by_dois_async gathers its batch requests: no
\* semaphore is taken
SendDoiBatch ==
    /\ sys.phase = "flight"
    /\ \E i \in Tasks :
         /\ sys.t[i] = NewTask("doi")
         /\ sys' = [sys EXCEPT !.t[i].pc = "flight"]
    /\ UNCHANGED <<pc, mode, entry0, user_interaction, strict, res, run>>

\* fetch_work_details_async: "async with semaphore", then the request
SendDetail ==
    /\ sys.phase = "flight"
    /\ \E i \in Tasks :
         /\ sys.t[i] = NewTask("detail")
         /\ sys._request_semaphore > 0
         /\ sys' = [sys EXCEPT !.t[i].pc = "flight", !._request_semaphore = @ - 1]
    /\ UNCHANGED <<pc, mode, entry0, user_interaction, strict, res, run>>

\* a request comes back; leaving "async with semaphore" releases it
answered(y, i) ==
    [y EXCEPT !.t[i].pc = "done",
              !._request_semaphore = IF y.t[i].kind = "detail" THEN @ + 1 ELSE @]

RequestReturns ==
    /\ sys.phase = "flight"
    /\ \E i \in Tasks :
         /\ sys.t[i].pc = "flight"
         /\ sys' = answered(sys, i)
    /\ UNCHANGED <<pc, mode, entry0, user_interaction, strict, res, run>>

NextFlight == SendSearch \/ SendDoiBatch \/ SendDetail \/ RequestReturns

SpecFlight == InitFlight /\ [][NextFlight]_vars

in_flight(y) == Cardinality({i \in Tasks : y.t[i].pc = "flight"})

\* C18: at every moment of a concurrent run the requests in flight, of all
\* kinds together, number at most max_concurrent_requests.
C18_InFlightBounded == in_flight(sys) <= sys.max_concurrent_requests
(***************************************************************************)
(* Whole-file runs: persistence of the concurrent pipeline, the skip       *)
(***************************************************************************)
\* C21: a run of handle_process_concurrent that was not skipped and came to
\* its end has written the processed entries to the output file.
C21_ConcurrentRunPersists ==
    (run.pipeline = "conc" /\ run.phase = "done" /\ (~run.out_exists \/ run.force)) =>
        run.saved = <<run.entries>>

\* C22: when the output exists and force is not set, handle_process does
\* not load the input, sends no DOI or search request and writes nothing.
C22_SkipIsNoOp ==
    (run.pipeline = "seq" /\ run.out_exists /\ ~run.force) =>
        /\ run.phase = "done"
        /\ run.log = <<>>
        /\ run.doi_requests = <<>>
        /\ run.searched = {}
        /\ run.saved = <<>>
        /\ run.entries = run.loaded

\* a skipped sequential run over a file with a DOI entry and a title entry
C22_Witness ==
    /\ run.pipeline = "seq"
    /\ run.out_exists
    /\ ~run.force
    /\ run.phase = "done"
    /\ with_dois(run.entries) # {}
    /\ without_dois(run.entries) # {}

(***************************************************************************)
(* Scoring: compute_metadata_score, compute_overall_score,                 *)
(* fuzzy_match_authors and match_name_parts as functions of their inputs   *)
(***************************************************************************)
DIGITS == <<"0", "1", "2", "3", "4", "5", "6", "7", "8", "9">>

is_digit(c) == \E i \in 1..10 : DIGITS[i] = c

digit_value(c) == (CHOOSE i \in 1..10 : DIGITS[i] = c) - 1

RECURSIVE digits_value(_)
digits_value(s) ==
    IF s = <<>> THEN 0
    ELSE 10 * digits_value(SubSeq(s, 1, Len(s) - 1)) + digit_value(s[Len(s)])

\* the outcomes of a call: a returned value or a raised exception
Pending == [kind |-> "pending"]
Value(v) == [kind |-> "value", v |-> v]
Raised(exc) == [kind |-> "raised", exc |-> exc]

\* values a year field can hold: None, an integer, a string, a list
YearNone == [t |-> "none"]
YearInt(n) == [t |-> "int", n |-> n]
YearStr(s) == [t |-> "str", s |-> s]
YearList(items) == [t |-> "list", items |-> items]

\* truth value of a year field in a condition
truthy(x) ==
    CASE x.t = "none" -> FALSE
      [] x.t = "int" -> x.n # 0
      [] x.t = "str" -> x.s # <<>>
      [] x.t = "list" -> x.items # <<>>

\* int(x): an integer as it is, a string of digits between whitespace as
\* its value, any other string a ValueError, None or a list a TypeError
py_int(x) ==
    CASE x.t = "int" -> Value(x.n)
      [] x.t = "str" ->
           IF str_strip(x.s) # <<>> /\ \A i \in 1..Len(str_strip(x.s)) : is_digit(str_strip(x.s)[i])
           THEN Value(digits_value(str_strip(x.s)))
           ELSE Raised("ValueError")
      [] OTHER -> Raised("TypeError")

abs(n) == IF n < 0 THEN 0 - n ELSE n

\* the branch on the year difference
year_step(diff) ==
    IF diff = 0 THEN 60
    ELSE IF diff = 1 THEN 55
    ELSE IF diff <= 5 THEN 45
    ELSE 35

\* max(0.0, min(x, hi))
clamp_to(x, hi) == IF x < 0 THEN 0 ELSE IF x > hi THEN hi ELSE x

clamp100(x) == clamp_to(x, 100)

\* compute_metadata_score(entry, work): year is entry.get("year", ""),
\* already a string; oa_year is work.get("publication_year").  Only a
\* ValueError of the two int() calls is caught.
compute_metadata_score(year, oa_year) ==
    IF str_strip(year) # <<>> /\ truthy(oa_year)
    THEN IF py_int(YearStr(str_strip(year))).kind = "raised"
         THEN Value(50)
         ELSE IF py_int(oa_year).kind = "raised"
              THEN (IF py_int(oa_year).exc = "ValueError" THEN Value(50)
                    ELSE Raised(py_int(oa_year).exc))
              ELSE Value(clamp100(
                      year_step(abs(py_int(YearStr(str_strip(year))).v - py_int(oa_year).v))))
    ELSE Value(50)

\* the year fields of bibliography entries
DeclaredYears ==
    { <<>>, <<" ">>, <<"2", "0", "2", "0">>, <<" ", "2", "0", "2", "0", " ">>,
      <<"2", "0", "1", "4">>, <<"2", "0", "2", "1">>, <<"0">>, <<"n", ".", "d", ".">> }

\* the publication_year fields of catalog works
CandidateYears ==
    { YearNone, YearInt(0), YearInt(2014), YearInt(2015), YearInt(2019),
      YearInt(2020), YearInt(2021), YearInt(2026),
      YearStr(<<"2", "0", "2", "0">>), YearStr(<<"n", ".", "d", ".">>),
      YearList(<<2020>>) }

MetadataCalls ==
    { [fn |-> "compute_metadata_score", year |-> y, oa_year |-> o, out |-> Pending] :
        y \in DeclaredYears, o \in CandidateYears }

CallMetadataScore ==
    /\ sys.fn = "compute_metadata_score"
    /\ sys.out = Pending
    /\ sys' = [sys EXCEPT !.out = compute_metadata_score(sys.year, sys.oa_year)]
    /\ UNCHANGED <<pc, mode, entry0, user_interaction, strict, res, run>>

\* compute_overall_score from the three component scores.  The components
\* are counted in tenths of a point and the result in hundredths, so that
\* 0.5 * title + 0.3 * author + 0.2 * m is 5 * title + 3 * author + 2 * m
\* and the clamp to [0, 100] is a clamp to [0, 10000].
\* the weights of authors and metadata exchanged
overall_of_swapped_weights(title_score, author_score, m_score) ==
    clamp_to(5 * title_score + 2 * author_score + 3 * m_score, 10000)

overall_of(title_score, author_score, m_score) ==
    clamp_to(5 * title_score + 3 * author_score + 2 * m_score, 10000)

\* title scores 0.7 * token_set_ratio + 0.3 * partial_ratio, in tenths
TitleScores == {0, 300, 715, 1000}

\* author scores, in tenths
AuthorScores == {0, 500, 850, 1000}

\* metadata scores, in tenths
MetadataScores == {350, 450, 500, 550, 600}

OverallCalls ==
    { [fn |-> "compute_overall_score", title_score |-> t, author_score |-> a,
       m_score |-> m, out |-> Pending] :
        t \in TitleScores, a \in AuthorScores, m \in MetadataScores }

CallOverallScore ==
    /\ sys.fn = "compute_overall_score"
    /\ sys.out = Pending
    /\ sys' = [sys EXCEPT !.out = Value(overall_of(sys.title_score, sys.author_score, sys.m_score))]
    /\ UNCHANGED <<pc, mode, entry0, user_interaction, strict, res, run>>

\* fuzz.ratio and fuzz.partial_ratio of the fuzzywuzzy library: 100 for
\* equal strings, 0 when one string is empty, and otherwise the value r
\* the library computes, which the caller of the model supplies
fuzz_ratio(s1, s2, r) ==
    IF s1 = s2 THEN 100
    ELSE IF s1 = <<>> \/ s2 = <<>> THEN 0
    ELSE r

max2(a, b) == IF a >= b THEN a ELSE b

\* match_name_parts on the two split names b and oa, in tenths of a point;
\* o holds the library's ratios and gate is the least last-name ratio
name_parts_score(b, oa, o, gate) ==
    IF b[3] = <<>> /\ oa[3] = <<>> THEN 0
    ELSE IF fuzz_ratio(b[3], oa[3], o.last) < gate THEN 0
    ELSE clamp_to(
           5 * fuzz_ratio(b[3], oa[3], o.last)
            + 3 * max2(fuzz_ratio(b[1], oa[1], o.first),
                       fuzz_ratio(b[1], oa[1], o.first_partial))
            + 2 * (IF b[2] = <<>> /\ oa[2] = <<>> THEN 100
                   ELSE max2(fuzz_ratio(b[2], oa[2], o.mid),
                             fuzz_ratio(b[2], oa[2], o.mid_partial))),
           1000)

\* the gate at 80 instead of 90
match_name_parts_gate80(bib_author, openalex_author, o) ==
    name_parts_score(split_name_components(bib_author),
                     split_name_components(openalex_author), o, 80)

match_name_parts(bib_author, openalex_author, o) ==
    name_parts_score(split_name_components(bib_author),
                     split_name_components(openalex_author), o, 90)

\* author names: "J S", "j. s", "S", "J B", "J A S", "J A B", "." and ""
AuthorNames ==
    { <<"J", " ", "S">>, <<"j", ".", " ", "s">>, <<"S">>, <<"J", " ", "B">>,
      <<"J", " ", "A", " ", "S">>, <<"J", " ", "A", " ", "B">>, <<".">>, <<>> }

\* ratios of the library for last names, and for first and middle names
LastRatios == {0, 89, 90, 100}
PartRatios == {0, 100}

NameOracles ==
    [last : LastRatios, first : PartRatios, first_partial : PartRatios,
     mid : PartRatios, mid_partial : PartRatios]

NamePartsCalls ==
    { [fn |-> "match_name_parts", bib_author |-> b, openalex_author |-> a,
       o |-> o, out |-> Pending] :
        b \in AuthorNames, a \in AuthorNames, o \in NameOracles }

CallMatchNameParts ==
    /\ sys.fn = "match_name_parts"
    /\ sys.out = Pending
    /\ sys' = [sys EXCEPT !.out =
                 Value(match_name_parts(sys.bib_author, sys.openalex_author, sys.o))]
    /\ UNCHANGED <<pc, mode, entry0, user_interaction, strict, res, run>>

MaxBibAuthors == 2
MaxOaAuthors == 4

\* the bibliography authors that some candidate author matches:
\* score[(i - 1) * no + j] is match_name_parts of bibliography author i and
\* candidate author j
matched(nb, no, threshold, score) ==
    {i \in 1..nb : \E j \in 1..no : score[(i - 1) * no + j] >= threshold}

\* fuzzy_match_authors for nb bibliography authors and no candidate
\* authors.  Scores and threshold are in tenths of a point; the result is
\* the fraction num / den of a tenth of a point, den = len(bibtex_authors).
fuzzy_match_authors(nb, no, threshold, score) ==
    IF nb = 0 \/ no = 0 THEN [num |-> 0, den |-> 1]
    ELSE [num |-> max2(0, 1000 * Cardinality(matched(nb, no, threshold, score))
                          - (IF abs(nb - no) > 2 THEN abs(nb - no) * 50 * nb ELSE 0)),
          den |-> nb]

\* name-pair scores just below and at the default threshold of 70
PairScores == {690, 700}

\* a call on nb bibliography authors and no candidate authors whose
\* name pairs have the scores sc
AuthorsCall(nb, no, sc) ==
    [fn |-> "fuzzy_match_authors", nb |-> nb, no |-> no, score |-> sc, out |-> Pending]

CallFuzzyMatchAuthors ==
    /\ sys.fn = "fuzzy_match_authors"
    /\ sys.out = Pending
    /\ sys' = [sys EXCEPT !.out = Value(fuzzy_match_authors(sys.nb, sys.no, 700, sys.score))]
    /\ UNCHANGED <<pc, mode, entry0, user_interaction, strict, res, run>>

ScoreCalls == MetadataCalls \cup OverallCalls \cup NamePartsCalls

InitScore ==
    /\ pc = "score"
    /\ mode = "none"
    /\ entry0 = <<>>
    /\ user_interaction = FALSE
    /\ strict = FALSE
    /\ res = NoResult
    /\ run = IdleRun
    /\ \/ sys \in ScoreCalls
       \/ \E nb \in 0..MaxBibAuthors, no \in 0..MaxOaAuthors :
            \E sc \in [1..(nb * no) -> PairScores] : sys = AuthorsCall(nb, no, sc)

NextScore ==
    CallMetadataScore \/ CallOverallScore \/ CallMatchNameParts \/ CallFuzzyMatchAuthors

SpecScore == InitScore /\ [][NextScore]_vars

\* a completed call of compute_metadata_score
metadata_done == sys.fn = "compute_metadata_score" /\ sys.out # Pending

\* both years are present and the declared year parses as an integer
years_known ==
    /\ str_strip(sys.year) # <<>>
    /\ sys.oa_year # YearNone
    /\ py_int(YearStr(sys.year)).kind = "value"

\* C23: compute_metadata_score never raises and returns the step function
\* of the year difference: 60, 55, 45 or 35 when both years are there and
\* the declared year is an integer, 50 otherwise.
C23_MetadataStepFunction ==
    metadata_done =>
        /\ sys.out.kind = "value"
        /\ sys.out.v \in {35, 45, 50, 55, 60}
        /\ (~years_known) => sys.out.v = 50
        /\ (years_known /\ py_int(sys.oa_year).kind = "value") =>
              sys.out.v = year_step(abs(py_int(YearStr(sys.year)).v - py_int(sys.oa_year).v))

\* the same for calls whose candidate year is an integer other than 0, a
\* string or None
C23_WellTypedYears ==
    (metadata_done /\ sys.oa_year.t # "list" /\ sys.oa_year # YearInt(0)) =>
        /\ sys.out.kind = "value"
        /\ (~years_known \/ py_int(sys.oa_year).kind = "raised") => sys.out.v = 50
        /\ (years_known /\ py_int(sys.oa_year).kind = "value") =>
              sys.out.v = year_step(abs(py_int(YearStr(sys.year)).v - py_int(sys.oa_year).v))

\* a completed call of compute_overall_score
overall_done == sys.fn = "compute_overall_score" /\ sys.out # Pending

\* C24: the overall score is 0.5 * title + 0.3 * authors + 0.2 * metadata,
\* brought into [0, 100] (here in hundredths of a point, the components in
\* tenths), so the value the thresholds see lies in [0, 100].
C24_OverallIsWeightedSum ==
    overall_done =>
        /\ sys.out.kind = "value"
        /\ sys.out.v >= 0
        /\ sys.out.v <= 10000
        /\ (5 * sys.title_score + 3 * sys.author_score + 2 * sys.m_score \in 0..10000) =>
              sys.out.v = 5 * sys.title_score + 3 * sys.author_score + 2 * sys.m_score

\* an overall score of 92: identical titles, all authors covered, same year
C24_Witness ==
    /\ overall_done
    /\ sys.title_score = 1000 /\ sys.author_score = 1000 /\ sys.m_score = 600
    /\ sys.out = Value(9200)

\* a completed call of match_name_parts
name_parts_done == sys.fn = "match_name_parts" /\ sys.out # Pending

\* the parsed last names of the two names of the call
b_last == split_name_components(sys.bib_author)[3]
oa_last == split_name_components(sys.openalex_author)[3]

\* C26: when the ratio of the two parsed last names is below 90, as it is
\* when exactly one last name is empty, match_name_parts returns 0 whatever
\* the ratios of the first and middle names are; a result other than 0
\* implies a last-name ratio of at least 90.
C26_SurnameGate ==
    name_parts_done =>
        /\ (fuzz_ratio(b_last, oa_last, sys.o.last) < 90) => sys.out = Value(0)
        /\ ((b_last = <<>>) # (oa_last = <<>>)) => sys.out = Value(0)
        /\ (sys.out # Value(0)) => fuzz_ratio(b_last, oa_last, sys.o.last) >= 90

\* two different last names of ratio 89 with first names of ratio 100
C26_Witness ==
    /\ name_parts_done
    /\ b_last # <<>> /\ oa_last # <<>> /\ b_last # oa_last
    /\ sys.o.last = 89
    /\ sys.o.first = 100 /\ sys.o.first_partial = 100
    /\ sys.out = Value(0)

\* a completed call of fuzzy_match_authors
authors_done == sys.fn = "fuzzy_match_authors" /\ sys.out # Pending

\* the excess of the difference of the two lengths over 2
excess(nb, no) == IF abs(nb - no) > 2 THEN abs(nb - no) - 2 ELSE 0

\* C25: fuzzy_match_authors returns 0 when a list is empty and otherwise
\* max(0, coverage - 5 * e), coverage being 100 times the share of the
\* bibliography authors with a name-pair score of at least the threshold
\* and e the excess of the length difference over 2.
C25_CoverageMinusExcessPenalty ==
    authors_done =>
        IF sys.nb = 0 \/ sys.no = 0
        THEN sys.out.v.num = 0
        ELSE /\ sys.out.v.den = sys.nb
             /\ sys.out.v.num =
                  max2(0, 1000 * Cardinality(matched(sys.nb, sys.no, 700, sys.score))
                          - 50 * excess(sys.nb, sys.no) * sys.nb)

\* the same for lists whose lengths differ by at most 2
C25_NoPenaltyUpToTwo ==
    (authors_done /\ abs(sys.nb - sys.no) <= 2) =>
        IF sys.nb = 0 \/ sys.no = 0
        THEN sys.out.v.num = 0
        ELSE /\ sys.out.v.den = sys.nb
             /\ sys.out.v.num = 1000 * Cardinality(matched(sys.nb, sys.no, 700, sys.score))

(***************************************************************************)
(* Text functions: split_name_components, normalize_text and               *)
(* fuzzy_match_titles over all short strings of an alphabet                *)
(***************************************************************************)
STOPWORDS ==
    { <<"t", "h", "e">>, <<"o", "f">>, <<"a", "n", "d">>, <<"a">>, <<"a", "n">>,
      <<"i", "n">>, <<"t", "o">>, <<"o", "n">>, <<"f", "o", "r">>,
      <<"w", "i", "t", "h">>, <<"l", "a">> }

\* string.punctuation, as far as its characters occur in the model
string_punctuation == PUNCT \cup {"_", "!", "?", "(", ")", ";"}

\* the stopwords are dropped before the punctuation is removed
normalize_text_stopwords_first(text) ==
    IF text = <<>> THEN <<>>
    ELSE SelectSeq(
             str_join(SelectSeq(str_split(str_lower(str_strip(collapse_ws(to_ascii(text))))),
                                LAMBDA w : w \notin STOPWORDS)),
             LAMBDA c : c \notin string_punctuation)

normalize_text(text) ==
    IF text = <<>> THEN <<>>
    ELSE str_join(SelectSeq(
             str_split(str_lower(str_strip(collapse_ws(
                 SelectSeq(to_ascii(text), LAMBDA c : c \notin string_punctuation))))),
             LAMBDA w : w \notin STOPWORDS))

\* fuzz.token_set_ratio of two normalised titles: 100 for equal strings
\* with a token, 0 when a string has no token, otherwise the value r the
\* library computes
fuzz_token_set_ratio(s1, s2, r) ==
    IF s1 = <<>> \/ s2 = <<>> THEN 0
    ELSE IF s1 = s2 THEN 100
    ELSE r

\* the combined score of two normalised titles, in tenths of a point
titles_combined(t1, t2, o) ==
    IF t1 = <<>> \/ t2 = <<>> THEN 0
    ELSE 7 * fuzz_token_set_ratio(t1, t2, o.token) + 3 * fuzz_ratio(t1, t2, o.partial)

\* fuzzy_match_titles with the default weights 0.7 and 0.3
fuzzy_match_titles(title1, title2, o) ==
    IF title1 = <<>> \/ title2 = <<>> THEN 0
    ELSE titles_combined(normalize_text(title1), normalize_text(title2), o)

MaxTextLen == 3

\* letters, a capital, a blank, a full stop, an accented letter and a
\* non-ASCII character without an ASCII base
Alphabet == {"a", "n", "T", " ", ".", "e_acute", "eszett"}

Texts == UNION { [1..n -> Alphabet] : n \in 0..MaxTextLen }

TitleOracles == [token : {40, 100}, partial : {60, 100}]

\* the calls on the text x: its split as a name, its normalisation, its
\* match as a title against itself or against "na" under the ratios o
TextCalls(x, same, o) ==
    { [fn |-> "split_name_components", name |-> x, out |-> Pending],
      [fn |-> "normalize_text", text |-> x, out |-> Pending, again |-> Pending],
      [fn |-> "fuzzy_match_titles", title1 |-> x,
       title2 |-> IF same THEN x ELSE <<"n", "a">>, o |-> o, out |-> Pending] }

InitText ==
    /\ pc = "text"
    /\ mode = "none"
    /\ entry0 = <<>>
    /\ user_interaction = FALSE
    /\ strict = FALSE
    /\ res = NoResult
    /\ run = IdleRun
    /\ \E x \in Texts, same \in BOOLEAN, o \in TitleOracles : sys \in TextCalls(x, same, o)

CallSplitNameComponents ==
    /\ sys.fn = "split_name_components"
    /\ sys.out = Pending
    /\ sys' = [sys EXCEPT !.out = Value(split_name_components(sys.name))]
    /\ UNCHANGED <<pc, mode, entry0, user_interaction, strict, res, run>>

CallNormalizeText ==
    /\ sys.fn = "normalize_text"
    /\ sys.out = Pending
    /\ sys' = [sys EXCEPT !.out = Value(normalize_text(sys.text))]
    /\ UNCHANGED <<pc, mode, entry0, user_interaction, strict, res, run>>

\* normalize_text applied to its own result
CallNormalizeTextAgain ==
    /\ sys.fn = "normalize_text"
    /\ sys.out # Pending
    /\ sys.again = Pending
    /\ sys' = [sys EXCEPT !.again = Value(normalize_text(sys.out.v))]
    /\ UNCHANGED <<pc, mode, entry0, user_interaction, strict, res, run>>

CallFuzzyMatchTitles ==
    /\ sys.fn = "fuzzy_match_titles"
    /\ sys.out = Pending
    /\ sys' = [sys EXCEPT !.out = Value(fuzzy_match_titles(sys.title1, sys.title2, sys.o))]
    /\ UNCHANGED <<pc, mode, entry0, user_interaction, strict, res, run>>

NextText ==
    \/ CallSplitNameComponents
    \/ CallNormalizeText
    \/ CallNormalizeTextAgain
    \/ CallFuzzyMatchTitles

SpecText == InitText /\ [][NextText]_vars

has_word_char(name) ==
    \E i \in 1..Len(name) : name[i] \in {"a", "n", "T", "e_acute"}

normalized_twice == sys.fn = "normalize_text" /\ sys.out # Pending /\ sys.again # Pending

\* C28: normalize_text is idempotent: applied to its own result it returns
\* that result.
C28_NormalizeTextIdempotent ==
    normalized_twice => sys.again = sys.out

\* "a n" loses its stopword and becomes "n", which stays "n"
C28_Witness ==
    /\ normalized_twice
    /\ sys.text = <<"a", " ", "n">>
    /\ sys.out = Value(<<"n">>)
    /\ sys.again = Value(<<"n">>)

\* a completed call of fuzzy_match_titles on a title and itself
self_match == sys.fn = "fuzzy_match_titles" /\ sys.out # Pending /\ sys.title1 = sys.title2

\* the title is ASCII and has neither punctuation nor accents
plain_ascii(t) == \A i \in 1..Len(t) : t[i] \in {"a", "n", "T", " "}

\* C29: fuzzy_match_titles(t, t) is 100 (1000 tenths) for every non-empty
\* ASCII title t without punctuation or accents, titles of stopwords only
\* included.
C29_SelfMatchIs100 ==
    (self_match /\ sys.title1 # <<>> /\ plain_ascii(sys.title1)) =>
        sys.out = Value(1000)

\* the same for titles that keep a word after normalisation
C29_SelfMatchWithWord ==
    (self_match /\ normalize_text(sys.title1) # <<>>) => sys.out = Value(1000)

(***************************************************************************)
(* fetch_all_candidates_for_entry and its async twin as functions of the   *)
(* citation fields and of the catalog's answers to the queries             *)
(***************************************************************************)
\* ten works with ten ids, W0 to W9
TenWorks == [i \in 1..10 |-> Work(OPENALEX_PREFIX \o <<"W", DIGITS[i]>>, 60)]

\* the answers to n queries; the last query may be answered with ten works
FetchRemotes(n) ==
    Remotes(n) \cup {[r EXCEPT ![n] = Ok(TenWorks)] : r \in Remotes(n)}

FetchCalls ==
    UNION { { [title |-> <<"{", "T", "}">>, author |-> a, year |-> y, remote |-> r,
               engine |-> "none", out |-> Pending] :
                r \in FetchRemotes(Len(queries_to_try(<<"T">>, a, y))) } :
            a \in {<<>>, <<"S">>}, y \in {<<>>, <<"2", "1">>} }

InitFetch ==
    /\ pc = "fetch"
    /\ mode = "none"
    /\ entry0 = <<>>
    /\ user_interaction = FALSE
    /\ strict = FALSE
    /\ res = NoResult
    /\ run = IdleRun
    /\ sys \in FetchCalls

\* fetch_all_candidates_for_entry on an empty cache
CallFetchAll ==
    /\ sys.out = Pending
    /\ sys' = [sys EXCEPT
                 !.engine = "seq",
                 !.out = Value(fetch_all_candidates_for_entry(
                                   sys.title, sys.author, sys.year, <<>>, sys.remote))]
    /\ UNCHANGED <<pc, mode, entry0, user_interaction, strict, res, run>>

\* fetch_all_candidates_for_entry_async on an empty cache
CallFetchAllAsync ==
    /\ sys.out = Pending
    /\ sys' = [sys EXCEPT
                 !.engine = "async",
                 !.out = Value(fetch_all_candidates_for_entry_async(
                                   sys.title, sys.author, sys.year, <<>>, sys.remote))]
    /\ UNCHANGED <<pc, mode, entry0, user_interaction, strict, res, run>>

NextFetch == CallFetchAll \/ CallFetchAllAsync

SpecFetch == InitFetch /\ [][NextFetch]_vars

\* the call returned a candidate list
fetch_returned == sys.out # Pending /\ ~sys.out.v.raised

\* the works the catalog returned to the queries, in priority order
RECURSIVE returned_works(_)
returned_works(remote) ==
    IF remote = <<>> THEN <<>>
    ELSE Head(remote).body.results \o returned_works(Tail(remote))

\* the works of a list with a non-empty id that no earlier work of the list has
first_occurrences(works) ==
    SelectSeq([i \in 1..Len(works) |->
                 IF works[i].id # <<>> /\ \A j \in 1..(i - 1) : works[j].id # works[i].id
                 THEN works[i] ELSE Junk],
              LAMBDA w : w # Junk)

occurrences(id, works) == Cardinality({i \in 1..Len(works) : works[i].id = id})

\* C30: the candidates returned by fetch_all_candidates_for_entry and by
\* its async twin have pairwise different, non-empty ids; every id that a
\* query returned occurs exactly once; the candidates stand in the order of
\* their first occurrence over the queries in priority order.
C30_CandidatesDeduplicated ==
    fetch_returned =>
        /\ \A i, j \in 1..Len(sys.out.v.results) :
              i # j => sys.out.v.results[i].id # sys.out.v.results[j].id
        /\ \A i \in 1..Len(sys.out.v.results) : sys.out.v.results[i].id # <<>>
        /\ \A k \in 1..Len(returned_works(sys.remote)) :
              returned_works(sys.remote)[k].id # <<>> =>
                  occurrences(returned_works(sys.remote)[k].id, sys.out.v.results) = 1
        /\ sys.out.v.results = first_occurrences(returned_works(sys.remote))

\* three queries: the first returns W1 and W2, the second W2 and the third
\* W1 again; W1 and W2 are returned once each, in this order
C30_Witness ==
    /\ fetch_returned
    /\ Len(sys.remote) = 3
    /\ sys.remote[1] = Ok(<<Work(ID1, 84), Work(ID2, 85)>>)
    /\ sys.remote[2] = Ok(<<Work(ID2, 95)>>)
    /\ sys.remote[3] = Ok(<<Work(ID1, 60)>>)
    /\ sys.out.v.results = <<Work(ID1, 84), Work(ID2, 85)>>

\* the async twin after a title query answered with ten works
C30_WitnessAsync ==
    /\ fetch_returned
    /\ sys.engine = "async"
    /\ sys.remote[Len(sys.remote)] = Ok(TenWorks)
    /\ Len(sys.out.v.results) = 10

(***************************************************************************)
(* Whole-file runs: the reported counts                                    *)
(***************************************************************************)
\* the entries with an identifier at the end of the run
identified(r) == {i \in 1..Len(r.entries) : "openalex" \in DOMAIN r.entries[i]}

\* handle_process loaded the file and came to its final log line
counts_reported ==
    /\ run.pipeline = "seq"
    /\ run.phase = "done"
    /\ ~(run.out_exists /\ ~run.force)

\* C31: at the end of handle_process the matched count is the number of
\* entries with an identifier, the unmatched count the number of entries
\* without, and the two add up to the number of entries.
C31_CountsDescribeFile ==
    counts_reported =>
        /\ run.success_count = Cardinality(identified(run))
        /\ run.fail_count = Len(run.entries) - Cardinality(identified(run))
        /\ run.success_count + run.fail_count = Len(run.entries)

\* the same for files in which no entry has a DOI
C31_CountsWithoutDois ==
    (counts_reported /\ with_dois(run.loaded) = {}) =>
        /\ run.success_count = Cardinality(identified(run))
        /\ run.fail_count = Len(run.entries) - Cardinality(identified(run))

(***************************************************************************)
(* Ranking: scored.sort(key=..., reverse=True) of the sequential engine    *)
(* and sorted(scored, reverse=True) of score_candidates_concurrent         *)
(***************************************************************************)
MaxRanked == 3

\* the candidates are works with different ids, as retrieval returns them
RankIds == [i \in 1..MaxRanked |-> OPENALEX_PREFIX \o <<"W", DIGITS[i + 1]>>]

RankScores == {60, 84, 85}

\* x is put before the first element with a score not greater than its own:
\* among equal scores the later candidate comes first
insert_before_equal(sorted, x) ==
    IF \E k \in 1..Len(sorted) : sorted[k].score <= x.score
    THEN SubSeq(sorted, 1, (CHOOSE k \in 1..Len(sorted) :
                              /\ sorted[k].score <= x.score
                              /\ \A j \in 1..(k - 1) : sorted[j].score > x.score) - 1)
           \o <<x>>
           \o SubSeq(sorted, CHOOSE k \in 1..Len(sorted) :
                                /\ sorted[k].score <= x.score
                                /\ \A j \in 1..(k - 1) : sorted[j].score > x.score,
                     Len(sorted))
    ELSE Append(sorted, x)

\* one step of the stable descending sort: x, which followed the elements
\* of sorted in the input, is put behind every element with a score not
\* less than its own
insert_stable(sorted, x) ==
    IF \E k \in 1..Len(sorted) : sorted[k].score < x.score
    THEN SubSeq(sorted, 1, (CHOOSE k \in 1..Len(sorted) :
                              /\ sorted[k].score < x.score
                              /\ \A j \in 1..(k - 1) : sorted[j].score >= x.score) - 1)
           \o <<x>>
           \o SubSeq(sorted, CHOOSE k \in 1..Len(sorted) :
                                /\ sorted[k].score < x.score
                                /\ \A j \in 1..(k - 1) : sorted[j].score >= x.score,
                     Len(sorted))
    ELSE Append(sorted, x)

\* scored.sort(key=lambda x: x[0], reverse=True): a stable sort on the
\* score alone
RECURSIVE sort_by_score(_)
sort_by_score(scored) ==
    IF scored = <<>> THEN <<>>
    ELSE insert_stable(sort_by_score(SubSeq(scored, 1, Len(scored) - 1)),
                       scored[Len(scored)])

\* score_candidates_concurrent(entry, candidates): executor.map keeps the
\* order of the candidates; sorted(scored, reverse=True) compares the
\* (score, work) tuples and raises TypeError on two works of equal score
score_candidates_concurrent(candidates) ==
    IF candidates = <<>> THEN Value(<<>>)
    ELSE IF score_candidates_raises(candidates) THEN Raised("TypeError")
    ELSE Value(sort_by_score(candidates))

\* a candidate list and what the two rankings gave for it
RankCall(candidates) == [candidates |-> candidates, seq |-> Pending, conc |-> Pending]

InitRank ==
    /\ pc = "rank"
    /\ mode = "none"
    /\ entry0 = <<>>
    /\ user_interaction = FALSE
    /\ strict = FALSE
    /\ res = NoResult
    /\ run = IdleRun
    /\ \E n \in 0..MaxRanked :
         \E ids \in [1..n -> 1..MaxRanked], scores \in [1..n -> RankScores] :
            /\ \A i, j \in 1..n : i # j => ids[i] # ids[j]
            /\ sys = RankCall([i \in 1..n |-> Work(RankIds[ids[i]], scores[i])])

\* the scoring loop and the sort of process_bib_entry_by_title
CallSortScored ==
    /\ sys.seq = Pending
    /\ sys' = [sys EXCEPT !.seq = Value(sort_by_score(sys.candidates))]
    /\ UNCHANGED <<pc, mode, entry0, user_interaction, strict, res, run>>

CallScoreCandidatesConcurrent ==
    /\ sys.conc = Pending
    /\ sys' = [sys EXCEPT !.conc = score_candidates_concurrent(sys.candidates)]
    /\ UNCHANGED <<pc, mode, entry0, user_interaction, strict, res, run>>

NextRank == CallSortScored \/ CallScoreCandidatesConcurrent

SpecRank == InitRank /\ [][NextRank]_vars

\* the sequential engine ranked a non-empty candidate list
ranked == sys.seq # Pending /\ sys.candidates # <<>>

\* the greatest score of the list
top_score(candidates) ==
    CHOOSE s \in RankScores :
        /\ \E i \in 1..Len(candidates) : candidates[i].score = s
        /\ \A i \in 1..Len(candidates) : candidates[i].score <= s

\* C32: the candidate process_bib_entry_by_title holds against the
\* thresholds, scored[0] after the sort, has the greatest score of the
\* candidates and is the first of the candidates with that score in the
\* order of retrieval.
C32_BestIsFirstMaximum ==
    ranked =>
        /\ Len(sys.seq.v) = Len(sys.candidates)
        /\ sys.seq.v[1].score = top_score(sys.candidates)
        /\ \E i \in 1..Len(sys.candidates) :
              /\ sys.candidates[i] = sys.seq.v[1]
              /\ \A j \in 1..(i - 1) : sys.candidates[j].score # top_score(sys.candidates)
        /\ sys.candidates[best_index(sys.candidates)] = sys.seq.v[1]

\* three candidates of scores 60, 85, 85: the second one is the best
C32_Witness ==
    /\ ranked
    /\ Len(sys.candidates) = 3
    /\ sys.candidates[1].score = 60
    /\ sys.candidates[2].score = 85
    /\ sys.candidates[3].score = 85
    /\ sys.seq.v[1] = sys.candidates[2]

\* C33: score_candidates_concurrent returns one pair for each candidate, in
\* the order of non-increasing scores, the first pair being the candidate
\* the sequential engine takes for the best, also when candidates have
\* equal scores.
C33_ConcurrentRankingAgrees ==
    (sys.conc # Pending /\ sys.candidates # <<>>) =>
        /\ sys.conc.kind = "value"
        /\ Len(sys.conc.v) = Len(sys.candidates)
        /\ \A i \in 1..Len(sys.candidates) :
              \E k \in 1..Len(sys.conc.v) : sys.conc.v[k] = sys.candidates[i]
        /\ \A k \in 1..(Len(sys.conc.v) - 1) : sys.conc.v[k].score >= sys.conc.v[k + 1].score
        /\ sys.conc.v[1] = sys.candidates[best_index(sys.candidates)]

\* the same for candidate lists with pairwise different scores
C33_AgreesWithoutTies ==
    (/\ sys.conc # Pending
     /\ sys.candidates # <<>>
     /\ \A i, j \in 1..Len(sys.candidates) :
           i # j => sys.candidates[i].score # sys.candidates[j].score) =>
        /\ sys.conc.kind = "value"
        /\ Len(sys.conc.v) = Len(sys.candidates)
        /\ \A k \in 1..(Len(sys.conc.v) - 1) : sys.conc.v[k].score >= sys.conc.v[k + 1].score
        /\ sys.conc.v[1] = sys.candidates[best_index(sys.candidates)]

(***************************************************************************)
(* The queries of the two engines                                          *)
(***************************************************************************)
\* the query strings of a list of requests
queries_of(requests) == {requests[k].query : k \in 1..Len(requests)}

\* the query strings process_bib_entry_by_title sends for the entry when
\* the catalog answers every query with an empty result list
seq_query_strings(entry, ui, strict_flag) ==
    queries_of(process_bib_entry_by_title(entry, ui, strict_flag, <<>>,
                                          <<Ok(<<>>), Ok(<<>>), Ok(<<>>)>>, NoAnswer).requests)

\* C34: process_bib_entry_by_title_async sends the query strings that
\* process_bib_entry_by_title sends for the same entry.
C34_SameQueries ==
    AsyncDone => queries_of(res.requests) = seq_query_strings(entry0, user_interaction, strict)

\* the same for entries without author field
C34_SameQueriesWithoutAuthor ==
    (AsyncDone /\ "author" \notin DOMAIN entry0) =>
        queries_of(res.requests) = seq_query_strings(entry0, user_interaction, strict)

(***************************************************************************)
(* A failed batch request in the DOI resolution                            *)
(***************************************************************************)
\* the request of batch b failed: it raised, gave None after its retries, or
\* gave a body that validate_openalex_response rejects
request_failed(server) ==
    \/ make_request_with_retry(server).raised
    \/ data_falsy(make_request_with_retry(server).data)
    \/ ~validate_openalex_response(make_request_with_retry(server).data)

\* the batches of the call that sent a request which failed
failed_batches(dois, servers) ==
    {b \in 1..num_batches(Len(dois)) :
        /\ valid_dois(batch_at([i \in 1..Len(dois) |-> processed_doi(dois[i])], b)) # <<>>
        /\ request_failed(servers[b])}

batch_of(i) == ((i - 1) \div batch_size) + 1

\* what the same function returns when the request of batch b is answered
\* with an empty result list instead of failing
without_failure(fn, dois, servers, b) ==
    IF fn = "sync"
    THEN fetch_openalex_works_by_dois(dois, [servers EXCEPT ![b] = Ok(<<>>)])
    ELSE fetch_openalex_works_by_dois_async(dois, [servers EXCEPT ![b] = Ok(<<>>)])

\* an answered batch lists an item that is no dict (the reply on which the
\* async mapping loop raises)
answered_junk(dois, servers) ==
    \E b \in 1..num_batches(Len(dois)) :
        ~request_failed(servers[b]) /\ results_raise(servers[b].body.results)

C35_WitnessAsync ==
    /\ sys.phase = "returned"
    /\ sys.fn = "async"
    /\ 2 \in failed_batches(sys.dois, sys.servers)
    /\ ~sys.out.raised
    /\ sys.out.ids[1] # None

(***************************************************************************)
(* One cache used call after call: which entry a put evicts                *)
(***************************************************************************)
\* number of calls made on the cache
MaxOps == 4

QC == <<"c">>

LruKeys == {QA, QB, QC}

NoOp ==
    [op |-> "none", key |-> <<>>, value |-> <<>>, store0 |-> <<>>, store1 |-> <<>>,
     used0 |-> [k \in LruKeys |-> 0]]

\* used[k] is the number of the call that last hit k with get or put it,
\* born[k] the number of the put that inserted it
LruSys(kind, cap) ==
    [phase |-> "lru", kind |-> kind, cap |-> cap, store |-> <<>>, clock |-> 0,
     used |-> [k \in LruKeys |-> 0], born |-> [k \in LruKeys |-> 0], last |-> NoOp]

InitLru ==
    /\ pc = "lru"
    /\ mode = "none"
    /\ entry0 = <<>>
    /\ user_interaction = FALSE
    /\ strict = FALSE
    /\ res = NoResult
    /\ run = IdleRun
    /\ \E kind \in {"sync", "async"}, cap \in 1..MaxCap : sys = LruSys(kind, cap)

cache_keys(cache) == {cache[i].key : i \in 1..Len(cache)}

\* the value a put stores: not the one the cache holds under the key
fresh_value(cache, key) ==
    IF cache_has(cache, key) /\ cache_value(cache, key) = V1 THEN V2 ELSE V1

got_done(y, key, store1) ==
    [y EXCEPT !.store = store1, !.clock = @ + 1,
              !.used[key] = IF cache_has(y.store, key) THEN y.clock + 1 ELSE @,
              !.last = [op |-> "get", key |-> key, value |-> <<>>, store0 |-> y.store,
                        store1 |-> store1, used0 |-> y.used]]

put_done(y, key, value, store1) ==
    [y EXCEPT !.store = store1, !.clock = @ + 1, !.used[key] = y.clock + 1,
              !.born[key] = IF cache_has(y.store, key) THEN @ ELSE y.clock + 1,
              !.last = [op |-> "put", key |-> key, value |-> value, store0 |-> y.store,
                        store1 |-> store1, used0 |-> y.used]]

\* BoundedCache.get(key)
CacheGet ==
    /\ sys.phase = "lru"
    /\ sys.kind = "sync"
    /\ sys.clock < MaxOps
    /\ \E key \in LruKeys : sys' = got_done(sys, key, BoundedCache_get(sys.store, key))
    /\ UNCHANGED <<pc, mode, entry0, user_interaction, strict, res, run>>

\* BoundedCache.put(key, value)
CachePut ==
    /\ sys.phase = "lru"
    /\ sys.kind = "sync"
    /\ sys.clock < MaxOps
    /\ \E key \in LruKeys :
         sys' = put_done(sys, key, fresh_value(sys.store, key),
                    BoundedCache_put_cap(sys.store, key, fresh_value(sys.store, key), sys.cap))
    /\ UNCHANGED <<pc, mode, entry0, user_interaction, strict, res, run>>

\* AsyncBoundedCache.get(key)
AsyncCacheGet ==
    /\ sys.phase = "lru"
    /\ sys.kind = "async"
    /\ sys.clock < MaxOps
    /\ \E key \in LruKeys : sys' = got_done(sys, key, AsyncBoundedCache_get(sys.store, key))
    /\ UNCHANGED <<pc, mode, entry0, user_interaction, strict, res, run>>

\* AsyncBoundedCache.put(key, value)
AsyncCachePut ==
    /\ sys.phase = "lru"
    /\ sys.kind = "async"
    /\ sys.clock < MaxOps
    /\ \E key \in LruKeys :
         sys' = put_done(sys, key, fresh_value(sys.store, key),
                    AsyncBoundedCache_put(sys.store, key, fresh_value(sys.store, key), sys.cap))
    /\ UNCHANGED <<pc, mode, entry0, user_interaction, strict, res, run>>

NextLru == CacheGet \/ CachePut \/ AsyncCacheGet \/ AsyncCachePut

SpecLru == InitLru /\ [][NextLru]_vars

\* the key of the cache whose last get-hit or put is the oldest
least_recently_used(cache, used) ==
    CHOOSE k \in cache_keys(cache) : \A j \in cache_keys(cache) : used[k] <= used[j]

\* the entries of the cache as a set, whatever their order
entries(cache) == {cache[i] : i \in 1..Len(cache)}

\* C36: a put of a new key into a full cache removes exactly the entry whose
\* last get-hit or put is the oldest and adds the new one; a put of a key
\* that is present (or into a cache with room) evicts nothing and stores the
\* value under the key; a get that misses leaves the cache as it was.
C36_EvictionIsLru ==
    /\ (sys.phase = "lru" /\ sys.last.op = "put") =>
          IF ~cache_has(sys.last.store0, sys.last.key) /\ Len(sys.last.store0) >= sys.cap
          THEN entries(sys.last.store1) =
                  {e \in entries(sys.last.store0) :
                      e.key # least_recently_used(sys.last.store0, sys.last.used0)}
                  \cup {[key |-> sys.last.key, value |-> sys.last.value]}
          ELSE entries(sys.last.store1) =
                  {e \in entries(sys.last.store0) : e.key # sys.last.key}
                  \cup {[key |-> sys.last.key, value |-> sys.last.value]}
    /\ (sys.phase = "lru" /\ sys.last.op = "get"
           /\ ~cache_has(sys.last.store0, sys.last.key)) =>
          sys.last.store1 = sys.last.store0

\* a put of a third key into a full cache of two that evicts the entry
\* inserted last, the older one having been read since
C36_Witness ==
    /\ sys.phase = "lru"
    /\ sys.kind = "sync"
    /\ sys.last.op = "put"
    /\ Len(sys.last.store0) = 2
    /\ sys.cap = 2
    /\ ~cache_has(sys.last.store0, sys.last.key)
    /\ \E s \in cache_keys(sys.last.store0) :
          /\ cache_has(sys.store, s)
          /\ sys.born[s] < sys.born[least_recently_used(sys.last.store0, sys.last.used0)]

\* a put that replaces the value of a present key
C36_WitnessReplace ==
    /\ sys.phase = "lru"
    /\ sys.kind = "async"
    /\ sys.last.op = "put"
    /\ cache_has(sys.last.store0, sys.last.key)
    /\ cache_value(sys.last.store0, sys.last.key) # sys.last.value
    /\ Len(sys.store) = 2

(***************************************************************************)
(* The retry loop of _make_request_with_retry and of its async twin, one   *)
(* turn of the loop a step: the server's answer is the environment's       *)
(***************************************************************************)
\* largest _CONFIG["max_retries"]
MaxRetries == 3

\* what client.get may give: a 200 with a JSON body, a 200 whose body is no
\* JSON, a status of retry_codes (without Retry-After, with seconds, with a
\* date, with negative seconds), a 400, another error status (404), a
\* timeout, a transport error
ServerOutcomes ==
    {"ok", "bad_json", "status_retry", "retry_after", "retry_after_date",
     "retry_after_negative", "status_400", "status_other", "timeout", "transport"}

RetryStatuses == {"status_retry", "retry_after", "retry_after_date", "retry_after_negative"}

Body == <<"body">>

Requested(outcome) == [ev |-> "request", what |-> outcome]

Waited(by) == [ev |-> "wait", what |-> by]

\* trace lists the requests sent and the sleeps made, in order
RetrySys(fn, max_retries) ==
    [phase |-> "retry", fn |-> fn, max_retries |-> max_retries, attempt |-> 0,
     trace |-> <<>>, out |-> Pending]

InitRetry ==
    /\ pc = "retry"
    /\ mode = "none"
    /\ entry0 = <<>>
    /\ user_interaction = FALSE
    /\ strict = FALSE
    /\ res = NoResult
    /\ run = IdleRun
    /\ \E fn \in {"sync", "async"}, m \in 0..MaxRetries : sys = RetrySys(fn, m)

\* the turn ends the call with the result out
retry_return(y, outcome, out) ==
    [y EXCEPT !.trace = Append(@, Requested(outcome)), !.out = out]

\* "time.sleep(wait_time); continue"
retry_sleep(y, outcome, by) ==
    [y EXCEPT !.trace = @ \o <<Requested(outcome), Waited(by)>>, !.attempt = @ + 1]

\* the handlers of httpx.TimeoutException and httpx.HTTPError: sleep and go
\* on while attempts are left, else leave the loop, after which None is
\* returned
retry_except(y, outcome) ==
    IF y.attempt < y.max_retries - 1 THEN retry_sleep(y, outcome, "backoff")
    ELSE retry_return(y, outcome, Value(None))

\* a status of retry_codes: the wait is Retry-After's seconds when the header
\* parses, else the backoff; time.sleep raises on negative seconds,
\* asyncio.sleep returns at once; on the last attempt raise_for_status raises
\* into the handler of httpx.HTTPError
retry_status(y, outcome) ==
    IF y.attempt < y.max_retries - 1
    THEN IF outcome = "retry_after" THEN retry_sleep(y, outcome, "server")
         ELSE IF outcome = "retry_after_negative"
         THEN IF y.fn = "sync" THEN retry_return(y, outcome, Raised("ValueError"))
              ELSE retry_sleep(y, outcome, "server")
         ELSE retry_sleep(y, outcome, "backoff")
    ELSE retry_except(y, outcome)

\* one turn of "for attempt in range(max_retries)", the server answering
\* with outcome; with no turn to make the call returns None
retry_turn(y, outcome) ==
    IF y.attempt >= y.max_retries THEN [y EXCEPT !.out = Value(None)]
    ELSE IF outcome \in RetryStatuses THEN retry_status(y, outcome)
    ELSE IF outcome = "status_400" THEN retry_return(y, outcome, Value(None))
    ELSE IF outcome = "ok" THEN retry_return(y, outcome, Value(Body))
    ELSE IF outcome = "bad_json" THEN retry_return(y, outcome, Raised("JSONDecodeError"))
    ELSE retry_except(y, outcome)

\* a turn of the loop of _make_request_with_retry
RetryTurn ==
    /\ sys.phase = "retry"
    /\ sys.fn = "sync"
    /\ sys.out = Pending
    /\ \E outcome \in ServerOutcomes : sys' = retry_turn(sys, outcome)
    /\ UNCHANGED <<pc, mode, entry0, user_interaction, strict, res, run>>

\* a turn of the loop of _make_request_with_retry_async
RetryTurnAsync ==
    /\ sys.phase = "retry"
    /\ sys.fn = "async"
    /\ sys.out = Pending
    /\ \E outcome \in ServerOutcomes : sys' = retry_turn(sys, outcome)
    /\ UNCHANGED <<pc, mode, entry0, user_interaction, strict, res, run>>

NextRetry == RetryTurn \/ RetryTurnAsync

SpecRetry == InitRetry /\ [][NextRetry]_vars

\* every turn that can be made is made
SpecRetryFair == SpecRetry /\ WF_vars(NextRetry)

requests_sent(trace) == Len(SelectSeq(trace, LAMBDA e : e.ev = "request"))

\* every request after the first comes right after a sleep, and the request
\* before that sleep met a retry status, a timeout or a transport error
retries_follow_waits(trace) ==
    \A i \in 2..Len(trace) :
        trace[i].ev = "request" =>
            /\ trace[i - 1].ev = "wait"
            /\ i > 2
            /\ trace[i - 2].ev = "request"

\* C37: the call sends at most max_retries requests, every request after the
\* first follows a wait, and the call returns the decoded body of the
\* successful response or None.
C37_BoundedRetriesBodyOrNone ==
    sys.phase = "retry" =>
        /\ requests_sent(sys.trace) <= sys.max_retries
        /\ retries_follow_waits(sys.trace)
        /\ sys.out # Pending =>
              \/ sys.out = Value(None)
              \/ /\ sys.out = Value(Body)
                 /\ sys.trace[Len(sys.trace)] = Requested("ok")

\* the parts of C37 that hold: the bound on the requests, the waits, and a
\* call that returns gives the body of the 200 response or None
C37_BoundedAndWaits ==
    sys.phase = "retry" =>
        /\ requests_sent(sys.trace) <= sys.max_retries
        /\ retries_follow_waits(sys.trace)
        /\ (sys.out # Pending /\ sys.out.kind = "value") =>
              \/ sys.out = Value(None)
              \/ sys.out = Value(Body) /\ sys.trace[Len(sys.trace)] = Requested("ok")
        /\ sys.out.kind = "raised" =>
              sys.trace[Len(sys.trace)].what \in {"bad_json", "retry_after_negative"}

\* the call ends
C37_Terminates == <>(sys.phase = "retry" => sys.out # Pending)

\* C38: a response with an error status outside retry_codes (404, 400) ends
\* the call: its request is the last event of the trace, no wait and no
\* request follows, and the call returns None.
C38_OtherStatusReturnsAtOnce ==
    (sys.phase = "retry" /\ sys.fn = "sync") =>
        \A i \in 1..Len(sys.trace) :
            (sys.trace[i] = Requested("status_other")
                \/ sys.trace[i] = Requested("status_400")) =>
                /\ i = Len(sys.trace)
                /\ sys.out = Value(None)

\* the same for the status 400 alone, which the code returns on
C38_BadRequestReturnsAtOnce ==
    (sys.phase = "retry" /\ sys.fn = "sync") =>
        \A i \in 1..Len(sys.trace) :
            sys.trace[i] = Requested("status_400") =>
                /\ i = Len(sys.trace)
                /\ sys.out = Value(None)

(***************************************************************************)
(* A search that fails and the cache                                       *)
(***************************************************************************)
\* C39: a search whose request failed (retries used up, error status,
\* transport error, undecodable or invalid response) returns the empty list
\* and leaves its cache exactly as it was; the next search of the same
\* function for the same query sends a request again; and an entry enters a
\* cache only as the result list of a search whose request succeeded, under
\* that search's query.
C39_FailedSearchNotCached ==
    sys.phase = "search" =>
        /\ failed_search(sys.last) =>
              /\ sys.last.works = <<>>
              /\ sys.last.cache1 = sys.last.cache0
              /\ ~cache_has(sys.last.cache1, sys.last.query)
        /\ sys.last.after_failed => sys.last.requested
        /\ \A e \in entries(sys.last.cache1) \ entries(sys.last.cache0) :
              /\ sys.last.reply.kind = "ok"
              /\ validate_openalex_response(sys.last.reply.body)
              /\ e = [key |-> sys.last.query, value |-> sys.last.reply.body.results]

\* a search that failed on an error status over a cache holding another
\* query
C39_Witness ==
    /\ sys.phase = "search"
    /\ sys.last.fn = "sync"
    /\ sys.last.reply.kind = "status_other"
    /\ sys.last.cache0 # <<>>
    /\ sys.cache = sys.last.cache0

\* the search after a failed one for the same query, which is sent to the
\* catalog again and succeeds
C39_WitnessAgain ==
    /\ sys.phase = "search"
    /\ sys.last.after_failed
    /\ sys.last.requested
    /\ sys.last.reply.kind = "ok"
    /\ cache_has(sys.cache, sys.last.query) \/ cache_has(sys.acache, sys.last.query)

(***************************************************************************)
(* alexify/shutdown.py: operations inside OperationContext and a thread    *)
(* that calls wait_for_shutdown(timeout). Time is counted in sleeps of the *)
(* waiting loop (0.1 s each).                                              *)
(***************************************************************************)
\* largest timeout, in sleeps
MaxTimeout == 2

\* number of operations
NumOps == 2

Ops == 1..NumOps

\* the operation_id values: with_shutdown_protection builds the id from the
\* operation name and the thread, so two calls may carry the same id
OpIds == {"op_a", "op_b"}

\* the timeouts, 0 and a negative one included
Timeouts == -1..MaxTimeout

\* sleeps counts the turns of the waiting loop modulo 2, elapsed the time
\* since start_time up to MaxTimeout
IdleWaiter ==
    [pc |-> "idle", elapsed |-> 0, sleeps |-> 0, ret |-> "none", executing |-> {},
     left |-> {}]

ShutdownSys(timeout, ids) ==
    [phase |-> "shutdown", timeout |-> timeout, ids |-> ids,
     op |-> [o \in Ops |-> "new"], active_operations |-> {},
     shutdown_requested |-> FALSE, w |-> IdleWaiter]

InitShutdown ==
    /\ pc = "shutdown"
    /\ mode = "none"
    /\ entry0 = <<>>
    /\ user_interaction = FALSE
    /\ strict = FALSE
    /\ res = NoResult
    /\ run = IdleRun
    /\ \E timeout \in Timeouts, ids \in [Ops -> OpIds] : sys = ShutdownSys(timeout, ids)

\* the operations between __enter__ and __exit__
executing(y) == {o \in Ops : y.op[o] = "running"}

\* register_operation
register_operation(y, operation_id) ==
    [y EXCEPT !.active_operations = @ \cup {operation_id}]

\* unregister_operation
unregister_operation(y, operation_id) ==
    [y EXCEPT !.active_operations = @ \ {operation_id}]

\* OperationContext.__enter__
OperationEnter ==
    /\ sys.phase = "shutdown"
    /\ \E o \in Ops :
         /\ sys.op[o] = "new"
         /\ sys' = [register_operation(sys, sys.ids[o]) EXCEPT !.op[o] = "running"]
    /\ UNCHANGED <<pc, mode, entry0, user_interaction, strict, res, run>>

\* OperationContext.__exit__
OperationExit ==
    /\ sys.phase = "shutdown"
    /\ \E o \in Ops :
         /\ sys.op[o] = "running"
         /\ sys' = [unregister_operation(sys, sys.ids[o]) EXCEPT !.op[o] = "done"]
    /\ UNCHANGED <<pc, mode, entry0, user_interaction, strict, res, run>>

\* signal_handler: "self.request_shutdown()"
SignalHandler ==
    /\ sys.phase = "shutdown"
    /\ ~sys.shutdown_requested
    /\ sys' = [sys EXCEPT !.shutdown_requested = TRUE]
    /\ UNCHANGED <<pc, mode, entry0, user_interaction, strict, res, run>>

\* wait_for_shutdown(timeout) is called: start_time = time.time()
CallWaitForShutdown ==
    /\ sys.phase = "shutdown"
    /\ sys.w.pc = "idle"
    /\ sys' = [sys EXCEPT !.w.pc = "waiting"]
    /\ UNCHANGED <<pc, mode, entry0, user_interaction, strict, res, run>>

\* "if timeout and (time.time() - start_time) >= timeout"
timed_out(timeout, elapsed) == timeout # 0 /\ elapsed >= timeout

\* a timeout test that takes 0 for a timeout like any other
timed_out_zero_counts(timeout, elapsed) == elapsed >= timeout

\* one turn of the loop of wait_for_operations: return True (and with it
\* wait_for_shutdown) when no operation is registered, return False when the
\* timeout is over, else sleep
wait_for_operations_turn(y) ==
    IF y.active_operations = {}
    THEN [y EXCEPT !.w.pc = "returned", !.w.ret = "True", !.w.executing = executing(y),
                   !.w.left = y.active_operations]
    ELSE IF timed_out(y.timeout, y.w.elapsed)
    THEN [y EXCEPT !.w.pc = "forcing"]
    ELSE [y EXCEPT !.w.elapsed = IF @ < MaxTimeout THEN @ + 1 ELSE @,
                   !.w.sleeps = (@ + 1) % 2]

WaitForOperationsTurn ==
    /\ sys.phase = "shutdown"
    /\ sys.w.pc = "waiting"
    /\ sys' = wait_for_operations_turn(sys)
    /\ UNCHANGED <<pc, mode, entry0, user_interaction, strict, res, run>>

\* force_shutdown, after which wait_for_shutdown returns False
ForceShutdown ==
    /\ sys.phase = "shutdown"
    /\ sys.w.pc = "forcing"
    /\ sys' = [sys EXCEPT !.active_operations = {}, !.shutdown_requested = TRUE,
                          !.w.pc = "returned", !.w.ret = "False",
                          !.w.executing = executing(sys), !.w.left = {}]
    /\ UNCHANGED <<pc, mode, entry0, user_interaction, strict, res, run>>

NextShutdown ==
    \/ OperationEnter
    \/ OperationExit
    \/ SignalHandler
    \/ CallWaitForShutdown
    \/ WaitForOperationsTurn
    \/ ForceShutdown

SpecShutdown == InitShutdown /\ [][NextShutdown]_vars

\* the thread in wait_for_shutdown keeps running; nothing makes an
\* operation end
SpecShutdownFair ==
    SpecShutdown /\ WF_vars(WaitForOperationsTurn) /\ WF_vars(ForceShutdown)

\* C40: a call of wait_for_shutdown returns, for every timeout, 0 included.
C40_ShutdownTerminates ==
    (sys.phase = "shutdown" /\ sys.w.pc = "waiting") ~> (sys.w.pc = "returned")

\* the same for the timeouts other than 0
C40_TerminatesWithTimeout ==
    (sys.phase = "shutdown" /\ sys.w.pc = "waiting" /\ sys.timeout # 0)
        ~> (sys.w.pc = "returned")

\* what a call that returns gives: no operation is registered when it
\* returns, and False only after the timeout with operations left
C40_ReturnedRight ==
    (sys.phase = "shutdown" /\ sys.w.pc = "returned") =>
        /\ sys.w.left = {}
        /\ sys.w.ret = "False" => timed_out(sys.timeout, sys.w.elapsed)

\* True is not returned while an operation is inside its context
C40_NoTrueWhileExecuting ==
    (sys.phase = "shutdown" /\ sys.w.ret = "True") => sys.w.executing = {}

\* the same when the operations carry different ids
C40_NoTrueWhileExecutingDistinctIds ==
    (sys.phase = "shutdown" /\ sys.w.ret = "True"
        /\ \A o1 \in Ops, o2 \in Ops : o1 # o2 => sys.ids[o1] # sys.ids[o2]) =>
        sys.w.executing = {}

====
